---- MODULE Spec2Model ----
(***************************************************************************)
(* Verification model of hut8/panopticon: the EM4100 tag decoder of the    *)
(* sentinel firmware (src/sentinel/src/rfiduino.rs), the sentinel session  *)
(* protocol of the server (src/panopticon/src/tcp.rs), the access decision *)
(* engine (src/panopticon/src/sentinel.rs) and the deferred lock response  *)
(* handling (src/panopticon/src/api.rs).                                   *)
(*                                                                         *)
(* The module holds several specifications over one set of variables:      *)
(*   SpecDecode   decode_tag applied to encoded, corrupted and noisy input *)
(*   SpecScanTag  the double-read state machine of scan_for_tag            *)
(*   SpecTagId    is_valid_tag_id applied to candidate strings             *)
(*   SpecDeferred handle_lock_response and its resolver task               *)
(*   Spec         the TCP sessions, the store and process_scan             *)
(*   SpecReader   one session reading lines in any length and chunking     *)
(*   SpecBus      the broadcast channel, its producers and its consumers   *)
(*   SpecFault    SpecReader with store statements of the loop failing     *)
(*   SpecFirmware the sentinel's main loop, its connection and its logger  *)
(*   SpecPoll     one decode_tag call, poll by poll, on stuck signals      *)
(*   SpecReconnect the main loop's periodic check, server up and down      *)
(*   SpecMutex    the handle's mutex held across send_scan and log calls   *)
(* In Spec and SpecReader every store statement succeeds.                  *)
(* A specification leaves the variables of the other parts unchanged.      *)
(***************************************************************************)
EXTENDS Integers, Sequences, FiniteSets, TLC

VARIABLES
    (* --- tag decoder (rfiduino.rs) --- *)
    dSig,         \* the demodulated signal presented to decode_tag
    dOut,         \* what decode_tag returned for dSig (Pending before the call)
    poll,         \* a decode_tag call run poll by poll: position, time_count, locals
    read_count,   \* RFIDuino.read_count
    scan_buffer,  \* RFIDuino.scan_buffer
    scanRet,      \* return value of the last scan_for_tag call
    scanHist,     \* ghost: successful decodes since construction / reset_scan
    (* --- tag-ID validator (sentinel.rs) --- *)
    tIn,          \* the candidate string, as its ':'-free groups
    tOut,         \* what is_valid_tag_id returned for it (Pending before the call)
    (* --- event bus (main.rs: broadcast::channel) --- *)
    events,       \* every event sent on state.events, in sending order
    (* --- deferred lock responses (api.rs) --- *)
    lockCalls,    \* the handle_lock_response calls made: response and return value
    tasks,        \* the resolver tasks spawned, in spawning order
    (* --- the store (PostgreSQL tables) --- *)
    mode,         \* system_config: value of key 'sentinel_mode'
    cards,        \* access_cards: number of rows per tag_id
    scanLog,      \* scan_log: the rows (tag_id, action) in insertion order
    sentinel,     \* sentinels: the row of the configured secret
    logRows,      \* sentinel_logs: number of rows
    (* --- TCP sessions (tcp.rs) and callers of process_scan --- *)
    sess,         \* per connection: position in handle_connection, unread input
    returned,     \* ghost: number of process_scan calls that returned, per (tag, action)
    adminOps,     \* administrative requests served (set_mode, remove_card)
    (* --- the broadcast channel and its receivers (main.rs, email.rs, push.rs, ws.rs) --- *)
    bus,          \* the channel: events sent, senders alive, the producers
    subs,         \* per consumer: its receiver's cursor and its loop's position
    (* --- the sentinel firmware (src/sentinel/src/main.rs, logger.rs) --- *)
    clock,        \* seconds since boot
    fw,           \* the main thread: position, last_scan, the send_scan call in progress
    tcp_handle,   \* TCP_STREAM: 0 for None, else the number of the stored stream
    streams,      \* per TCP stream opened: the lines written on it, in order
    reports       \* the SCAN lines written, each with its tag and the time of the write

decVars == <<dSig, dOut, poll>>
scanVars == <<read_count, scan_buffer, scanRet, scanHist>>
tagVars == <<tIn, tOut>>
lockVars == <<lockCalls, tasks>>
storeVars == <<mode, cards, scanLog, sentinel, logRows>>
srvVars == <<mode, cards, scanLog, sentinel, logRows, sess, returned, adminOps>>
vars == <<dSig, dOut, poll, read_count, scan_buffer, scanRet, scanHist, tIn, tOut,
          events, lockCalls, tasks,
          mode, cards, scanLog, sentinel, logRows, sess, returned, adminOps,
          bus, subs, clock, fw, tcp_handle, streams, reports>>
busVars == <<bus, subs>>
fwVars == <<clock, fw, tcp_handle, streams, reports>>
nonServer == <<decVars, scanVars, tagVars, lockVars, busVars, fwVars>>

None == <<"None">>
Pending == <<"Pending">>
Some(x) == <<"Some", x>>

(***************************************************************************)
(* Tag decoder: src/sentinel/src/rfiduino.rs                               *)
(***************************************************************************)

\* Timeout loop count for waiting on signal transitions.
TIMEOUT == 1000
\* The start-of-frame wait gives up when it polled this many times.
StartLimit == 600

\* Byte values the tag identifiers of the model are built from.
ByteSample == {35, 76, 128}
TagIds == [1..5 -> ByteSample]

\* Bit b (3 = most significant) of the 4-bit value n.
NibbleBit(n, b) == (n \div (2 ^ b)) % 2
\* The 4 data bits of frame row r (0..9) of a tag: rows 2k and 2k+1 carry the
\* high and the low nibble of byte k, most significant bit first.
RowNibble(tag, r) ==
    IF r % 2 = 0 THEN tag[(r \div 2) + 1] \div 16 ELSE tag[(r \div 2) + 1] % 16
DataBit(tag, r, c) == NibbleBit(RowNibble(tag, r), 3 - c)
RowSum(tag, r) == DataBit(tag, r, 0) + DataBit(tag, r, 1) + DataBit(tag, r, 2) + DataBit(tag, r, 3)
RECURSIVE ColSum(_, _, _)
ColSum(tag, c, r) == IF r < 0 THEN 0 ELSE DataBit(tag, r, c) + ColSum(tag, c, r - 1)

\* The 55 cells that follow the header of the EM4100 frame of a tag: 10 rows
\* of 4 data bits and an even row-parity bit, then 4 even column-parity bits
\* and the closing bit of the frame.
EncodeCells(tag, last) ==
    [k \in 1..55 |->
        LET r == (k - 1) \div 5
            c == (k - 1) % 5
        IN  IF r < 10
            THEN IF c < 4 THEN DataBit(tag, r, c) ELSE RowSum(tag, r) % 2
            ELSE IF c < 4 THEN ColSum(tag, c, 9) % 2 ELSE last]

FlipBit(cells, i) == [k \in 1..55 |-> IF k = i THEN 1 - cells[k] ELSE cells[k]]

\* A signal on demod_out as one decode_tag call samples it.
\*   lowPolls  polls for which the line is still low at the start of the call
\*   high1     the level one bit period later is high
\*   header    the 8 levels sampled for the header bits
\*   cells     the 55 levels sampled for the rows
\*   stall     the cell (1..55) after which no transition arrives, 0 for none
Signal(lowPolls, high1, header, cells, stall) ==
    [lowPolls |-> lowPolls, high1 |-> high1, header |-> header,
     cells |-> cells, stall |-> stall]

HeaderOnes == [i \in 1..8 |-> 1]
CleanSignal(cells) == Signal(0, TRUE, HeaderOnes, cells, 0)

\* buf[j] <<= 1; buf[j] |= dat  on a u8
ShiftIn(byte, dat) == ((byte * 2) % 256) + dat

\* The row-parity test applied after the 5 cells of a row were read.
RowParityBad_NoCheck(row, row_parity) == FALSE
RowParityBad(row, row_parity) == row < 10 /\ (row_parity % 2) # 0

\* The column-parity test applied after all 11 rows were read.
ColParityBad_NoCheck(col_parity) == FALSE
ColParityBad(col_parity) ==
    \/ (col_parity[1] % 2) # 0
    \/ (col_parity[2] % 2) # 0
    \/ (col_parity[3] % 2) # 0
    \/ (col_parity[4] % 2) # 0

\* Which cells are shifted into the identifier bytes.
StoresBit_AllCols(row, col) == row < 10
StoresBit(row, col) == col < 4 /\ row < 10

\* The inner statement  if col < 4 && row < 10 { buf[j] <<= 1; buf[j] |= dat }
StoreCell(byte, row, col, dat) == IF StoresBit(row, col) THEN ShiftIn(byte, dat) ELSE byte

\* The nested row/column loop of decode_tag from row `row` on (0..10); the 5
\* cells of a row are read in column order.
RECURSIVE ReadRows(_, _, _, _)
ReadRows(sig, row, buf, col_parity) ==
    IF row > 10
    THEN IF ColParityBad(col_parity) THEN None ELSE Some(buf)
    ELSE
        LET base == row * 5
            j    == (row \div 2) + 1
            dat  == [col \in 0..4 |-> sig.cells[base + col + 1]]
            row_parity == dat[0] + dat[1] + dat[2] + dat[3] + dat[4]
            buf1 == [i \in 1..5 |->
                       IF i = j
                       THEN StoreCell(StoreCell(StoreCell(StoreCell(StoreCell(
                                buf[i], row, 0, dat[0]), row, 1, dat[1]), row, 2, dat[2]),
                                row, 3, dat[3]), row, 4, dat[4])
                       ELSE buf[i]]
            cp1 == [c \in 1..5 |-> (col_parity[c] + dat[c - 1]) % 256]
        IN  IF sig.stall \in (base + 1)..(base + 5)
            THEN None                      \* a wait for the transition timed out
            ELSE IF RowParityBad(row, row_parity)
                 THEN None
                 ELSE ReadRows(sig, row + 1, buf1, cp1)

\* The header loop: the number of header bits accepted before a low sample.
RECURSIVE HeaderCount(_, _)
HeaderCount(header, i) ==
    IF i >= 8 THEN 8
    ELSE IF header[i + 1] = 0 THEN i ELSE HeaderCount(header, i + 1)

Min(a, b) == IF a < b THEN a ELSE b

decode_tag(sig) ==
    LET time_count == Min(sig.lowPolls, TIMEOUT)
    IN  IF time_count >= StartLimit THEN None
        ELSE IF ~sig.high1 THEN None
        ELSE IF HeaderCount(sig.header, 0) # 8 THEN None
        ELSE ReadRows(sig, 0, [i \in 1..5 |-> 0], [c \in 1..5 |-> 0])

\* The signals of the decoder specification: every frame of a tag of the
\* model with either closing bit, clean or with one of its 55 cells flipped,
\* and some frames disturbed in the start, the header or the timing.
FramedSignals ==
    { [tag |-> t, last |-> l, flip |-> f,
       sig |-> CleanSignal(IF f = 0 THEN EncodeCells(t, l)
                                    ELSE FlipBit(EncodeCells(t, l), f))] :
        t \in TagIds, l \in {0, 1}, f \in 0..55 }
NoisyTag == [i \in 1..5 |-> 128]
NoisySignals ==
    { [tag |-> NoisyTag, last |-> 0, flip |-> 0, sig |-> s] :
        s \in { Signal(lp, h1, hd, EncodeCells(NoisyTag, 0), st) :
                  lp \in {0, 599, 600, 1000, 1001},
                  h1 \in BOOLEAN,
                  hd \in {HeaderOnes, [i \in 1..8 |-> IF i = 8 THEN 0 ELSE 1],
                          [i \in 1..8 |-> IF i = 1 THEN 0 ELSE 1]},
                  st \in {0, 1, 30, 55} } }

\* RFIDuino::new: scan_buffer [0u8; 5], read_count 0.  scanRet records the last
\* call made on the driver.
ScanInit ==
    /\ read_count = 0
    /\ scan_buffer = [i \in 1..5 |-> 0]
    /\ scanRet = [call |-> "new", decoded |-> None, ret |-> None]
    /\ scanHist = <<>>

\* The parts of the state a specification does not use stay as set here.
\* decode_tag on entry: buf zeroed, time_count 0, nothing returned.
PollIdle ==
    [pc |-> "start", time_count |-> 0, i |-> 0, row |-> 0, col |-> 0,
     buf |-> [k \in 1..5 |-> 0], row_parity |-> 0, col_parity |-> [c \in 1..5 |-> 0],
     current |-> 0, ret |-> Pending, at |-> "none"]
DecodeIdle ==
    /\ dSig = [tag |-> NoisyTag, last |-> 0, flip |-> 0,
               sig |-> CleanSignal(EncodeCells(NoisyTag, 0))]
    /\ dOut = Pending
    /\ poll = PollIdle
TagIdIdle ==
    /\ tIn = <<>>
    /\ tOut = Pending
LockIdle ==
    /\ lockCalls = <<>>
    /\ tasks = <<>>
\* The channel right after main has subscribed the email notifier.
Consumers == {"email", "push", "ws"}
Producers == {"session", "process_scan", "resolver", "admin"}
NoReceiver == [st |-> "none", next |-> 0, recvs |-> 0, lags |-> 0, last |-> 0, cause |-> "none"]
Receiver(at) == [NoReceiver EXCEPT !.st = "recv", !.next = at]
NewBus == [sent |-> 0, open |-> TRUE, halt |-> FALSE,
           prod |-> [p \in Producers |-> "run"], res |-> "none"]
BusIdle ==
    /\ bus = NewBus
    /\ subs = [c \in Consumers |-> IF c = "email" THEN Receiver(0) ELSE NoReceiver]
\* The firmware at the call of connect_panopticon in main, before the loop.
NoTag == ""
NoCall == [tag |-> NoTag, writes |-> 0, reconnects |-> 0, outcome |-> "none"]
\* holder: who holds the mutex of TCP_STREAM across steps ("none", "main" or
\* "logger", a log call of another thread).
\* up: what the network does to a connect or a write ("any": each may fail or
\* succeed; "yes": the server is reachable; "no": it is not).  elapsed: whole
\* seconds of last_reconnect_check.elapsed(), counted up to RECONNECT_INTERVAL.
Booting == [pc |-> "conn", ret |-> "idle", stream |-> 0, last_scan |-> <<>>,
            call |-> NoCall, reads |-> 0, logs |-> 0, up |-> "any", elapsed |-> 0,
            holder |-> "none"]
FirmwareIdle ==
    /\ clock = 0
    /\ fw = Booting
    /\ tcp_handle = 0
    /\ streams = <<>>
    /\ reports = <<>>
ServerIdle ==
    /\ mode = "guard"
    /\ cards = <<>>
    /\ scanLog = <<>>
    /\ sentinel = <<>>
    /\ logRows = 0
    /\ sess = <<>>
    /\ returned = <<>>
    /\ adminOps = 0

InitDecode ==
    /\ dSig \in FramedSignals \cup NoisySignals
    /\ dOut = Pending
    /\ poll = PollIdle
    /\ ScanInit
    /\ TagIdIdle
    /\ LockIdle
    /\ BusIdle
    /\ FirmwareIdle
    /\ ServerIdle
    /\ events = <<>>

DecodeTag ==
    /\ dOut = Pending
    /\ dOut' = decode_tag(dSig.sig)
    /\ UNCHANGED <<dSig, poll, scanVars, tagVars, events, lockVars, srvVars, busVars, fwVars>>

NextDecode == DecodeTag

SpecDecode == InitDecode /\ [][NextDecode]_vars

(***************************************************************************)
(* C5  For every 5-byte tag, decoding the EM4100 frame that encodes it     *)
(* (header of 8 ones, rows 2k and 2k+1 carrying the high and the low       *)
(* nibble of byte k with an even row-parity bit, a column-parity row, all  *)
(* transitions on time) returns Some of exactly those 5 bytes.             *)
(***************************************************************************)
IsCleanFrame(d) == d.flip = 0 /\ d.sig = CleanSignal(EncodeCells(d.tag, d.last))
C5_DecodeRoundTrip ==
    (dOut # Pending /\ IsCleanFrame(dSig)) => dOut = Some(dSig.tag)
C5_Witness ==
    /\ IsCleanFrame(dSig)
    /\ dSig.tag = <<128, 35, 76, 35, 128>>
    /\ dOut = Some(<<128, 35, 76, 35, 128>>)

(***************************************************************************)
(* C6  As claimed: for every valid frame and every single flipped bit (any *)
(* data bit, any row-parity bit of the 10 data rows, any bit of the        *)
(* column-parity row) the decoder returns None.                            *)
(***************************************************************************)
IsFlippedFrame(d) ==
    /\ d.flip \in 1..55
    /\ d.sig = CleanSignal(FlipBit(EncodeCells(d.tag, d.last), d.flip))
C6_AnyFlipRejected ==
    (dOut # Pending /\ IsFlippedFrame(dSig)) => dOut = None
(***************************************************************************)
(* C6 as amended: a single flipped bit among the 40 data bits, the 10      *)
(* row-parity bits and the first 4 bits of the column-parity row makes the *)
(* decoder return None; the fifth bit of the column-parity row is checked  *)
(* by no parity test, and a frame with only that bit flipped still decodes *)
(* to the tag.                                                             *)
(***************************************************************************)
C6_CheckedFlipRejected ==
    (dOut # Pending /\ IsFlippedFrame(dSig)) =>
        IF dSig.flip <= 54 THEN dOut = None ELSE dOut = Some(dSig.tag)
C6_Witness ==
    /\ IsFlippedFrame(dSig)
    /\ dSig.flip = 52
    /\ dOut = None

(***************************************************************************)
(* scan_for_tag / reset_scan                                               *)
(***************************************************************************)

\* Most successful decodes followed between two resets of the model.
MaxDecodes == 4

ScanTags == {<<128, 35, 76, 35, 128>>, <<35, 35, 35, 35, 35>>, <<76, 128, 76, 128, 76>>}
ScanSignals ==
    { CleanSignal(EncodeCells(t, 0)) : t \in ScanTags }
        \cup { CleanSignal(FlipBit(EncodeCells(<<35, 35, 35, 35, 35>>, 0), 7)),
               Signal(600, TRUE, HeaderOnes, EncodeCells(<<35, 35, 35, 35, 35>>, 0), 0) }

\* The comparison of the second read against the buffered first read.
SecondRead_NoCompare(tag_data, buffer) == Some(tag_data)
SecondRead(tag_data, buffer) == IF tag_data = buffer THEN Some(tag_data) ELSE None

\* self.read_count = 0 of the second read, whatever the comparison gives.
AfterSecond_KeepPending(tag_data, buffer) == IF tag_data = buffer THEN 0 ELSE 1
AfterSecond(tag_data, buffer) == 0

\* let tag_data = self.decode_tag()?;  read_count after the early return.
EarlyReturn_Reset(count) == 0
EarlyReturn(count) == count

ScanForTag(sig) ==
    LET decoded == decode_tag(sig)
        count == (read_count + 1) % 256
    IN  IF decoded = None
        THEN /\ scanRet' = [call |-> "scan", decoded |-> None, ret |-> None]
             /\ read_count' = EarlyReturn(read_count)
             /\ UNCHANGED <<scan_buffer, scanHist>>
        ELSE /\ Len(scanHist) < MaxDecodes
             /\ scanHist' = Append(scanHist, decoded[2])
             /\ IF count = 1
                THEN /\ read_count' = count
                     /\ scan_buffer' = decoded[2]
                     /\ scanRet' = [call |-> "scan", decoded |-> decoded, ret |-> None]
                ELSE IF count >= 2
                THEN /\ read_count' = AfterSecond(decoded[2], scan_buffer)
                     /\ scan_buffer' = scan_buffer
                     /\ scanRet' = [call |-> "scan", decoded |-> decoded,
                                    ret |-> SecondRead(decoded[2], scan_buffer)]
                ELSE /\ read_count' = count
                     /\ scan_buffer' = scan_buffer
                     /\ scanRet' = [call |-> "scan", decoded |-> decoded, ret |-> None]

ScanForTagCall ==
    \E sig \in ScanSignals :
        ScanForTag(sig) /\ UNCHANGED <<decVars, tagVars, events, lockVars, srvVars, busVars, fwVars>>

ResetScan ==
    /\ scanRet.call # "new"
    /\ read_count' = 0
    /\ scan_buffer' = [i \in 1..5 |-> 0]
    /\ scanRet' = [call |-> "reset", decoded |-> None, ret |-> None]
    /\ scanHist' = <<>>
    /\ UNCHANGED <<decVars, tagVars, events, lockVars, srvVars, busVars, fwVars>>

InitScanTag ==
    /\ DecodeIdle
    /\ ScanInit
    /\ TagIdIdle
    /\ LockIdle
    /\ BusIdle
    /\ FirmwareIdle
    /\ ServerIdle
    /\ events = <<>>

NextScanTag == ScanForTagCall \/ ResetScan

SpecScanTag == InitScanTag /\ [][NextScanTag]_vars

(***************************************************************************)
(* C7  scan_for_tag returns None for the first successful decode after     *)
(* construction or reset_scan; it returns Some(t) only when the decode of  *)
(* this call is t and equals the preceding successful decode, whose value  *)
(* is the pending one; when the second decode differs from the pending     *)
(* one it returns None.                                                    *)
(***************************************************************************)
IsScanCall == scanRet.call = "scan"
DecodedNow == IsScanCall /\ scanRet.decoded # None
C7_DoubleRead ==
    /\ (DecodedNow /\ Len(scanHist) = 1) => scanRet.ret = None
    /\ (IsScanCall /\ scanRet.ret # None) =>
            /\ DecodedNow
            /\ Len(scanHist) >= 2
            /\ scanRet.ret = Some(scanHist[Len(scanHist)])
            /\ scanHist[Len(scanHist)] = scanHist[Len(scanHist) - 1]
    /\ (DecodedNow /\ Len(scanHist) = 2 /\ scanHist[1] # scanHist[2]) =>
            scanRet.ret = None
    /\ (DecodedNow /\ Len(scanHist) = 2 /\ scanHist[1] = scanHist[2]) =>
            scanRet.ret = Some(scanHist[2])
C7_Witness ==
    /\ DecodedNow
    /\ Len(scanHist) = 4
    /\ scanHist[3] # scanHist[4]
    /\ scanHist[1] = scanHist[2]
    /\ scanRet.ret = None

(***************************************************************************)
(* Tag-ID validator: src/panopticon/src/sentinel.rs                        *)
(***************************************************************************)

\* Characters are one-character strings; E_ACUTE stands for a character whose
\* UTF-8 encoding takes 2 bytes.
Digits == {"0", "1", "2", "3", "4", "5", "6", "7", "8", "9"}
UpperHex == {"A", "B", "C", "D", "E", "F"}
LowerHex == {"a", "b", "c", "d", "e", "f"}
LowerAlpha == LowerHex \cup {"g", "h", "i", "j", "k", "l", "m", "n", "o", "p", "q",
                             "r", "s", "t", "u", "v", "w", "x", "y", "z"}
ByteLen(c) == IF c = "E_ACUTE" THEN 2 ELSE 1

is_ascii_hexdigit(c) == c \in Digits \cup UpperHex \cup LowerHex
is_ascii_lowercase(c) == c \in LowerAlpha

\* str::split(':'): the parts between the separators, empty parts included.
RECURSIVE SplitFrom(_, _, _, _)
SplitFrom(str, i, cur, acc) ==
    IF i > Len(str) THEN Append(acc, cur)
    ELSE IF str[i] = ":" THEN SplitFrom(str, i + 1, <<>>, Append(acc, cur))
    ELSE SplitFrom(str, i + 1, Append(cur, str[i]), acc)
Split(str) == SplitFrom(str, 1, <<>>, <<>>)

\* str::len: the length in bytes.
RECURSIVE StrLen(_)
StrLen(str) == IF str = <<>> THEN 0 ELSE ByteLen(Head(str)) + StrLen(Tail(str))

\* The test applied to every character of a part.
CharOk_AnyHex(c) == is_ascii_hexdigit(c)
CharOk(c) == is_ascii_hexdigit(c) /\ ~is_ascii_lowercase(c)

PartOk(part) == StrLen(part) = 2 /\ \A i \in 1..Len(part) : CharOk(part[i])

is_valid_tag_id(tag_id) ==
    LET parts == Split(tag_id)
    IN  IF Len(parts) # 5 THEN FALSE
        ELSE \A i \in 1..Len(parts) : PartOk(parts[i])

\* The candidate strings: 4 to 6 groups of the sample joined by ':'.
GroupSample ==
    { <<"8", "0">>, <<"4", "C">>, <<"4", "c">>, <<"G", "G">>, <<"8">>,
      <<"8", "0", "0">>, <<>>, <<"E_ACUTE">> }
MaxGroups == 5
TagIdInputs ==
    UNION { [1..n -> GroupSample] : n \in (MaxGroups - 1)..MaxGroups }
        \cup { <<g>> : g \in GroupSample }
        \cup { [i \in 1..6 |-> g] : g \in GroupSample }

RECURSIVE Join(_)
Join(groups) ==
    IF Len(groups) = 0 THEN <<>>
    ELSE IF Len(groups) = 1 THEN groups[1]
    ELSE groups[1] \o <<":">> \o Join(Tail(groups))

InitTagId ==
    /\ DecodeIdle
    /\ ScanInit
    /\ tIn \in TagIdInputs
    /\ tOut = Pending
    /\ LockIdle
    /\ BusIdle
    /\ FirmwareIdle
    /\ ServerIdle
    /\ events = <<>>

ValidateTagId ==
    /\ tOut = Pending
    /\ tOut' = <<"Returned", is_valid_tag_id(Join(tIn))>>
    /\ UNCHANGED <<tIn, decVars, scanVars, events, lockVars, srvVars, busVars, fwVars>>

NextTagId == ValidateTagId

SpecTagId == InitTagId /\ [][NextTagId]_vars

(***************************************************************************)
(* C8  is_valid_tag_id(s) is true iff s consists of exactly five groups    *)
(* separated by ':' and every group is exactly two characters drawn from   *)
(* 0-9 and uppercase A-F (80:00:48:23:4C accepted; 80:00:48:23:4c,         *)
(* 80:00:48:23 and GG:00:48:23:4C rejected).                               *)
(***************************************************************************)
IsTagIdShape(groups) ==
    /\ Len(groups) = 5
    /\ \A i \in 1..Len(groups) :
          /\ Len(groups[i]) = 2
          /\ \A k \in 1..2 : groups[i][k] \in Digits \cup UpperHex
C8_TagIdFormat == tOut # Pending => (tOut[2] <=> IsTagIdShape(tIn))
C8_Witness ==
    /\ tIn = << <<"8", "0">>, <<"8", "0">>, <<"4", "C">>, <<"8", "0">>, <<"4", "C">> >>
    /\ tOut = <<"Returned", TRUE>>

(***************************************************************************)
(* Deferred lock responses: src/panopticon/src/api.rs                      *)
(***************************************************************************)

\* Maximum seconds we'll wait for a deferred lock response before giving up.
MAX_DEFERRED_WAIT_SECS == 60

\* An unsigned 64-bit integer is kept as its four 16-bit limbs, most
\* significant first.
U64(n) == <<0, 0, n \div 65536, n % 65536>>
U64Max == <<65535, 65535, 65535, 65535>>
RECURSIVE U64Less(_, _)
U64Less(a, b) ==
    IF a = <<>> THEN FALSE
    ELSE IF Head(a) # Head(b) THEN Head(a) < Head(b)
    ELSE U64Less(Tail(a), Tail(b))
U64Greater(a, b) == U64Less(b, a)

\* One entry of a command response (DeviceWithStates), by the two states the
\* handler looks up.
\*   lockState  <<"absent">>, <<"str", s>> or <<"nonstr">>   (st.lock / lockState)
\*   deferred   <<"absent">>, <<"u64", n>> or <<"nonu64">>   (st.deferredResponse / seconds)
Entry(id, lockState, deferred) == [id |-> id, lockState |-> lockState, deferred |-> deferred]

to_lowercase(str) ==
    IF str \in {"Locked", "LOCKED", "locked"} THEN "locked"
    ELSE IF str \in {"Unlocked", "UNLOCKED", "unlocked"} THEN "unlocked"
    ELSE str

\* DeviceWithStates::lock_state
lock_state(entry) ==
    IF entry.lockState[1] = "str" THEN Some(to_lowercase(entry.lockState[2])) ELSE None

\* get_state("st.deferredResponse", "seconds") ... value.as_u64()
deferred_seconds(entry) ==
    IF entry.deferred[1] = "u64" THEN Some(entry.deferred[2]) ELSE None

\* results.iter().find(|s| s.id == device_id)
FindDevice_First(results, device_id) ==
    IF results = <<>> THEN None ELSE Some(Head(results))
RECURSIVE FindDevice(_, _)
FindDevice(results, device_id) ==
    IF results = <<>> THEN None
    ELSE IF Head(results).id = device_id THEN Some(Head(results))
    ELSE FindDevice(Tail(results), device_id)

\* The clamp of the reported wait.
CapSeconds_NoCap(seconds) == seconds
CapSeconds_LowHalf(seconds) ==
    IF U64Greater(<<0, 0, seconds[3], seconds[4]>>, U64(MAX_DEFERRED_WAIT_SECS))
    THEN U64(MAX_DEFERRED_WAIT_SECS) ELSE seconds
CapSeconds(seconds) ==
    IF U64Greater(seconds, U64(MAX_DEFERRED_WAIT_SECS))
    THEN U64(MAX_DEFERRED_WAIT_SECS) ELSE seconds

\* Most handle_lock_response calls of one behaviour.
MaxCommands == 2

U64Sample ==
    { U64(n) : n \in {0, 59, 60, 61, 65536} }
        \cup { <<0, 1, 0, 0>>, <<32768, 0, 0, 59>>, U64Max }
LockStateSample == {<<"absent">>, <<"str", "Unlocked">>, <<"nonstr">>}
DeferredSample == {<<"absent">>, <<"nonu64">>} \cup { <<"u64", n>> : n \in U64Sample }
ResponseSample ==
    {<<>>}
      \cup { <<Entry("L1", l, d)>> : l \in LockStateSample, d \in DeferredSample }
      \cup { <<Entry("L2", <<"str", "Locked">>, <<"u64", U64(5)>>), Entry("L1", l, d)>> :
                l \in LockStateSample, d \in {<<"absent">>, <<"u64", U64(61)>>} }
      \cup { <<Entry("L2", <<"str", "Locked">>, <<"u64", U64(5)>>)>>,
             <<Entry("L1", <<"absent">>, <<"u64", U64(61)>>), Entry("L1", <<"str", "LOCKED">>, <<"absent">>)>> }

LockStateEvent(device_id, ls) ==
    [type |-> "LockState", device_id |-> device_id, lock_state |-> ls]

\* handle_lock_response(state, device_id, device, results)
handle_lock_response(device_id, results) ==
    LET device_result == FindDevice(results, device_id)
        ls == IF device_result = None THEN None ELSE lock_state(device_result[2])
        secs == IF device_result = None THEN None ELSE deferred_seconds(device_result[2])
    IN  /\ Len(lockCalls) < MaxCommands
        /\ lockCalls' = Append(lockCalls,
                [device_id |-> device_id, results |-> results, ret |-> ls,
                 spawned |-> (ls = None /\ secs # None)])
        /\ IF ls # None
           THEN /\ events' = Append(events, LockStateEvent(device_id, ls[2]))
                /\ tasks' = tasks
           ELSE IF secs # None
           THEN /\ tasks' = Append(tasks,
                       [device_id |-> device_id, reported |-> secs[2],
                        seconds |-> CapSeconds(secs[2]), pc |-> "sleep",
                        call |-> Len(lockCalls) + 1, queries |-> 0,
                        outcome |-> "none"])
                /\ events' = events
           ELSE /\ tasks' = tasks
                /\ events' = events

HandleLockResponse ==
    /\ \E results \in ResponseSample : handle_lock_response("L1", results)
    /\ UNCHANGED <<decVars, scanVars, tagVars, srvVars, busVars, fwVars>>

\* tokio::time::sleep(Duration::from_secs(seconds)) of task i has elapsed.
ResolverWake(i) ==
    /\ tasks[i].pc = "sleep"
    /\ tasks' = [tasks EXCEPT ![i].pc = "poll"]
    /\ UNCHANGED <<events, lockCalls, decVars, scanVars, tagVars, srvVars, busVars, fwVars>>

\* Whether the spawned task sends a LockState event: only from the arm
\* Ok(device_states) with device_states.lock_state() present.
PollSends_Always(outcome) == outcome # "noclient"
PollSends(outcome) == outcome \notin {"noclient", "error", "nostate"}

\* The rest of the spawned task: the vendor client is looked up and the device
\* queried once.  outcome: "noclient", "error", "nostate" or a lock state.
ResolverPoll(i, outcome) ==
    /\ tasks[i].pc = "poll"
    /\ tasks' = [tasks EXCEPT ![i].pc = "done",
                              ![i].queries = IF outcome = "noclient" THEN @ ELSE @ + 1,
                              ![i].outcome = outcome]
    /\ events' = IF PollSends(outcome)
                 THEN Append(events, LockStateEvent(tasks[i].device_id, outcome))
                 ELSE events
    /\ UNCHANGED <<lockCalls, decVars, scanVars, tagVars, srvVars, busVars, fwVars>>

PollOutcomes == {"noclient", "error", "nostate", "locked", "unlocked"}

InitDeferred ==
    /\ DecodeIdle
    /\ ScanInit
    /\ TagIdIdle
    /\ LockIdle
    /\ BusIdle
    /\ FirmwareIdle
    /\ ServerIdle
    /\ events = <<>>

NextDeferred ==
    \/ HandleLockResponse
    \/ \E i \in 1..Len(tasks) : ResolverWake(i)
    \/ \E i \in 1..Len(tasks) : \E o \in PollOutcomes : ResolverPoll(i, o)

SpecDeferred == InitDeferred /\ [][NextDeferred]_vars

(***************************************************************************)
(* C9  For every deferred wait value s reported by the vendor (any         *)
(* unsigned 64-bit integer) the resolver task sleeps min(s, 60) seconds    *)
(* before it polls, hence never longer than the 60-second cap.             *)
(***************************************************************************)
C9_SleepClamped ==
    \A i \in 1..Len(tasks) :
        /\ tasks[i].seconds = IF U64Less(tasks[i].reported, U64(60))
                              THEN tasks[i].reported ELSE U64(60)
        /\ ~U64Less(U64(60), tasks[i].seconds)
        /\ tasks[i].queries > 0 => tasks[i].pc = "done"
C9_Witness ==
    \E i \in 1..Len(tasks) :
        /\ tasks[i].reported = U64Max
        /\ tasks[i].seconds = U64(60)
        /\ tasks[i].pc = "done"
        /\ tasks[i].queries = 1

(***************************************************************************)
(* Line reader: src/panopticon/src/tcp.rs, read_limited_line               *)
(***************************************************************************)

\* Maximum allowed line length from a sentinel (8 KiB).
MAX_LINE_LENGTH == 8192
\* Capacity of BufReader::new, 8 KiB: the most bytes one fill_buf can return.
BUF_CAPACITY == 8192

\* The bytes on the wire are kept as atoms: a protocol token, a tag id, a
\* secret, a run of n filler letters, a space, a newline, a byte that is no
\* UTF-8 (0xFF), and the first and the second byte of one 2-byte character.
\* A chunk is what one fill_buf makes available up to and including the first
\* newline: a sequence of atoms with at most one newline, at its end.
Atom(k, v, n) == [k |-> k, v |-> v, n |-> n]
Tok(t) == Atom("tok", t, Len(t))
TagAtom(t) == Atom("tag", t, 14)
Secret(x) == Atom("secret", x, 8)
Fill(n) == Atom("fill", "x", n)
SP == Atom("sp", " ", 1)
NL == Atom("nl", "\n", 1)
BadByte == Atom("bad", "0xFF", 1)
MbHead == Atom("mbhead", "0xC3", 1)
MbTail == Atom("mbtail", "0xA9", 1)

RECURSIVE ChunkLen(_)
ChunkLen(chunk) == IF chunk = <<>> THEN 0 ELSE Head(chunk).n + ChunkLen(Tail(chunk))

\* memchr(b'\n', available) found a newline.
FoundNewline(chunk) == chunk # <<>> /\ chunk[Len(chunk)].k = "nl"

\* std::str::from_utf8(chunk).is_ok()
Utf8Ok(chunk) ==
    \A i \in 1..Len(chunk) :
        /\ chunk[i].k # "bad"
        /\ chunk[i].k = "mbhead" => (i < Len(chunk) /\ chunk[i + 1].k = "mbtail")
        /\ chunk[i].k = "mbtail" => (i > 1 /\ chunk[i - 1].k = "mbhead")

\* What a call returns and what it leaves unread.
\*   res   "ok" (Ok(n), n > 0), "eof" (Ok(0)), "invalid" (InvalidData), "ioerr"
ReadResult(res, n, buf, rest) == [res |-> res, n |-> n, buf |-> buf, rest |-> rest]

\* The inner loop that drains the rest of an oversized line.
RECURSIVE Drain(_, _)
Drain(chunks, end) ==
    IF chunks = <<>>
    THEN IF end = "err" THEN ReadResult("ioerr", 0, <<>>, <<>>)
                        ELSE ReadResult("invalid", 0, <<>>, <<>>)
    ELSE IF FoundNewline(Head(chunks))
         THEN ReadResult("invalid", 0, <<>>, Tail(chunks))
         ELSE Drain(Tail(chunks), end)

\* The non-UTF-8 path: the chunk is consumed and the call returns.
AfterBadChunk(chunks, end) == ReadResult("invalid", 0, <<>>, Tail(chunks))

\* The length test of the outer loop.
TooLong_Off(total) == FALSE
TooLong(total) == total > MAX_LINE_LENGTH

\* read_limited_line(reader, buf): chunks and end are what the transport
\* delivers until the call returns (end: "line" when the last chunk closes
\* the line, "eof" or "err" when the stream ends or fails after the chunks).
RECURSIVE ReadLoop(_, _, _, _)
ReadLoop(chunks, end, total, buf) ==
    IF chunks = <<>>
    THEN IF end = "err" THEN ReadResult("ioerr", 0, <<>>, <<>>)
         ELSE IF total = 0 THEN ReadResult("eof", 0, <<>>, <<>>)
         ELSE ReadResult("ok", total, buf, <<>>)
    ELSE
        LET chunk == Head(chunks)
            total1 == total + ChunkLen(chunk)
        IN  IF TooLong(total1)
            THEN IF FoundNewline(chunk)
                 THEN ReadResult("invalid", 0, <<>>, Tail(chunks))
                 ELSE Drain(Tail(chunks), end)
            ELSE IF ~Utf8Ok(chunk)
            THEN AfterBadChunk(chunks, end)
            ELSE IF FoundNewline(chunk)
                 THEN ReadResult("ok", total1, buf \o chunk, Tail(chunks))
                 ELSE ReadLoop(Tail(chunks), end, total1, buf \o chunk)

read_limited_line(chunks, end) == ReadLoop(chunks, end, 0, <<>>)

\* str::trim: leading and trailing whitespace removed.
IsSpace(a) == a.k \in {"sp", "nl"}
RECURSIVE TrimStart(_)
TrimStart(str) ==
    IF str # <<>> /\ IsSpace(Head(str)) THEN TrimStart(Tail(str)) ELSE str
RECURSIVE TrimEnd(_)
TrimEnd(str) ==
    IF str # <<>> /\ IsSpace(str[Len(str)])
    THEN TrimEnd(SubSeq(str, 1, Len(str) - 1)) ELSE str
Trim(str) == TrimEnd(TrimStart(str))

\* trimmed.strip_prefix(p) for a token p that ends in a space: the trimmed
\* text starts with p only if something follows the token (a token that ends
\* the line has lost its space to trim).
StripPrefix(trimmed, p) ==
    IF Len(trimmed) >= 2 /\ trimmed[1] = Tok(p) THEN Some(Tail(trimmed)) ELSE None

\* The text of the tag ids of the model.
TagText(t) ==
    IF t = "T1" THEN Join(<< <<"8", "0">>, <<"0", "0">>, <<"4", "8">>, <<"2", "3">>, <<"4", "C">> >>)
    ELSE IF t = "T2" THEN Join(<< <<"F", "F">>, <<"F", "F">>, <<"F", "F">>, <<"F", "F">>, <<"F", "F">> >>)
    ELSE Join(<< <<"8", "0">>, <<"0", "0">>, <<"4", "8">>, <<"2", "3">>, <<"4", "c">> >>)

\* is_valid_tag_id on the payload of a SCAN line: a payload other than one tag
\* id holds filler letters, spaces or tokens, none of which is a hex digit.
PayloadValid(payload) ==
    Len(payload) = 1 /\ payload[1].k = "tag" /\ is_valid_tag_id(TagText(payload[1].v))

\* The dispatch of the message loop on a line that was read.
\*   kind  "blank", "log", "scan", "badscan" or "unknown"
Dispatch(line) ==
    LET trimmed == Trim(line)
        log == StripPrefix(trimmed, "LOG: ")
        scan == StripPrefix(trimmed, "SCAN: ")
    IN  IF trimmed = <<>> THEN [kind |-> "blank", payload |-> <<>>]
        ELSE IF log # None THEN [kind |-> "log", payload |-> log[2]]
        ELSE IF scan # None
             THEN IF PayloadValid(scan[2])
                  THEN [kind |-> "scan", payload |-> scan[2]]
                  ELSE [kind |-> "badscan", payload |-> scan[2]]
        ELSE [kind |-> "unknown", payload |-> <<>>]

(***************************************************************************)
(* The store, the sessions and process_scan:                               *)
(* src/panopticon/src/tcp.rs and src/panopticon/src/sentinel.rs            *)
(***************************************************************************)

\* Bounds of the server model.
MaxSessions == 2
MaxLines == 2
MaxAdmin == 1

Sessions == 1..MaxSessions
Tags == {"T1", "T2"}
Modes == {"guard", "enroll"}
\* state.sentinel_secret
sentinel_secret == "good"

\* --- the wire ---------------------------------------------------------------
Delivery(chunks, end) == [chunks |-> chunks, end |-> end]
NoInput == Delivery(<<>>, "line")

\* The length of the line a delivery carries, in bytes.
RECURSIVE LineLen(_)
LineLen(chunks) == IF chunks = <<>> THEN 0 ELSE ChunkLen(Head(chunks)) + LineLen(Tail(chunks))

\* What a client may send as its first line, or fail to send.
AuthzDeliveries ==
    { Delivery(<< <<Tok("AUTHZ: "), Secret("good"), NL>> >>, "line"),
      Delivery(<< <<Tok("AUTHZ: ")>>, <<Secret("good"), NL>> >>, "line"),
      Delivery(<< <<Tok("AUTHZ: "), Secret("good")>> >>, "eof"),
      Delivery(<< <<Tok("AUTHZ: "), Secret("evil"), NL>> >>, "line"),
      Delivery(<< <<Tok("LOG: "), Fill(10), NL>> >>, "line"),
      Delivery(<< <<Secret("good"), NL>> >>, "line"),
      Delivery(<< <<BadByte, Tok("AUTHZ: "), Secret("good"), NL>> >>, "line"),
      Delivery(<< <<Tok("AUTHZ: "), Fill(BUF_CAPACITY - 7)>>, <<Secret("good"), NL>> >>, "line"),
      Delivery(<<>>, "eof"),
      Delivery(<<>>, "err"),
      Delivery(<<>>, "timeout") }

\* The lines a client may send on an authenticated connection, each with a
\* way the transport splits it, and the ways the stream may end.
WellFormedLines ==
    { Delivery(<< <<Tok("LOG: "), Fill(10), NL>> >>, "line"),
      Delivery(<< <<Tok("SCAN: "), TagAtom("T1"), NL>> >>, "line"),
      Delivery(<< <<Tok("SCAN: "), TagAtom("T2"), NL>> >>, "line"),
      Delivery(<< <<Tok("SCAN: ")>>, <<TagAtom("T1"), NL>> >>, "line") }
IgnoredLines ==
    { Delivery(<< <<NL>> >>, "line"),
      Delivery(<< <<Fill(3), NL>> >>, "line"),
      Delivery(<< <<Tok("SCAN: "), TagAtom("Tlower"), NL>> >>, "line") }
LongLines ==
    { \* exactly MAX_LINE_LENGTH bytes with the newline: accepted
      Delivery(<< <<Tok("LOG: "), Fill(MAX_LINE_LENGTH - 6), NL>> >>, "line"),
      \* one byte more, the newline alone in the second chunk
      Delivery(<< <<Tok("LOG: "), Fill(BUF_CAPACITY - 5)>>, <<NL>> >>, "line"),
      \* too long, the tail reads like a SCAN line
      Delivery(<< <<Fill(BUF_CAPACITY)>>, <<Tok("SCAN: "), TagAtom("T1"), NL>> >>, "line"),
      \* too long, in three chunks
      Delivery(<< <<Fill(BUF_CAPACITY)>>, <<Fill(BUF_CAPACITY)>>,
                  <<Tok("LOG: "), Fill(3), NL>> >>, "line"),
      \* too long, with a byte that is no UTF-8 in its first chunk
      Delivery(<< <<BadByte, Fill(BUF_CAPACITY - 1)>>,
                  <<Tok("SCAN: "), TagAtom("T1"), NL>> >>, "line") }
NonUtf8Lines ==
    { Delivery(<< <<Fill(3), BadByte, NL>> >>, "line"),
      Delivery(<< <<BadByte, Fill(3)>>, <<Tok("LOG: "), Fill(3), NL>> >>, "line"),
      Delivery(<< <<Fill(3), MbHead>>, <<MbTail, Fill(3), NL>> >>, "line") }
StreamEnds ==
    { Delivery(<<>>, "eof"),
      Delivery(<<>>, "err"),
      Delivery(<< <<Tok("LOG: "), Fill(3)>> >>, "eof"),
      Delivery(<< <<Fill(BUF_CAPACITY)>>, <<Fill(3)>> >>, "eof"),
      Delivery(<< <<Fill(BUF_CAPACITY)>>, <<Fill(3)>> >>, "err") }
LineDeliveries == WellFormedLines \cup IgnoredLines \cup LongLines \cup NonUtf8Lines
\* The lines of a well-behaved client, each in one chunk.
PlainLines ==
    { Delivery(<< <<Tok("LOG: "), Fill(10), NL>> >>, "line"),
      Delivery(<< <<Tok("SCAN: "), TagAtom("T1"), NL>> >>, "line"),
      Delivery(<< <<Tok("SCAN: "), TagAtom("T2"), NL>> >>, "line") }
PlainEnds == { Delivery(<<>>, "eof"), Delivery(<<>>, "err") }

\* --- the store --------------------------------------------------------------

\* A row of sentinels as INSERT INTO sentinels (secret) creates it.
NewSentinelRow == [exists |-> TRUE, active_connections |-> 0, connected |-> FALSE]
NoSentinelRow == [exists |-> FALSE, active_connections |-> 0, connected |-> FALSE]

\* UPDATE sentinels SET connected = true, active_connections = active_connections + 1
IncrementRow_NoFlag(row) ==
    [row EXCEPT !.active_connections = @ + 1]
IncrementRow(row) ==
    [row EXCEPT !.connected = TRUE, !.active_connections = @ + 1]

\* UPDATE sentinels SET active_connections = GREATEST(active_connections - 1, 0),
\*                      connected = (active_connections - 1 > 0)
Greatest(a, b) == IF a > b THEN a ELSE b
DecrementRow_Flag(row) ==
    [row EXCEPT !.active_connections = Greatest(@ - 1, 0), !.connected = FALSE]
DecrementRow(row) ==
    [row EXCEPT !.active_connections = Greatest(@ - 1, 0),
                !.connected = (row.active_connections - 1 > 0)]

\* INSERT INTO access_cards (tag_id) VALUES ($1) ON CONFLICT DO NOTHING, with
\* tag_id unique in access_cards.
TagIdConflict(table, tag_id) == table[tag_id] > 0
InsertCard_Always(table, tag_id) == [table EXCEPT ![tag_id] = @ + 1]
InsertCard(table, tag_id) ==
    IF TagIdConflict(table, tag_id) THEN table ELSE [table EXCEPT ![tag_id] = @ + 1]

\* SELECT EXISTS(SELECT 1 FROM access_cards WHERE tag_id = $1)
ExistsCard_AnyTag(table, tag_id) == \E t \in DOMAIN table : table[t] > 0
ExistsCard(table, tag_id) == table[tag_id] > 0

\* --- events -----------------------------------------------------------------
Ev(type, by, a, b) == [type |-> type, by |-> by, a |-> a, b |-> b]

\* --- sessions ---------------------------------------------------------------
NoVendor == [client |-> FALSE, discover |-> <<"None">>, unlock |-> "None", results |-> <<>>]
NoScan == [tag |-> "", mode |-> "", action |-> "", calls |-> <<>>, held |-> 0, row |-> 0,
           vendor |-> NoVendor]
NoRead == [res |-> "none", over |-> FALSE, kind |-> "none", err |-> ""]
NewSession ==
    [pc |-> "authz", rx |-> NoInput, lines |-> 0, authed |-> FALSE, decs |-> 0,
     scan |-> NoScan, lastScan |-> NoScan, last |-> NoRead, over |-> FALSE,
     hello |-> "none"]

InitServer ==
    /\ mode \in Modes
    /\ cards \in {[t \in Tags |-> 0], [t \in Tags |-> IF t = "T1" THEN 1 ELSE 0]}
    /\ scanLog = <<>>
    /\ sentinel \in {NoSentinelRow, NewSentinelRow}
    /\ logRows = 0
    /\ sess = [s \in Sessions |-> NewSession]
    /\ returned = [t \in Tags |-> [a \in {"enrolled", "granted", "denied"} |-> 0]]
    /\ adminOps = 0
    /\ events = <<>>

Init ==
    /\ DecodeIdle
    /\ ScanInit
    /\ TagIdIdle
    /\ LockIdle
    /\ BusIdle
    /\ FirmwareIdle
    /\ InitServer

\* The bytes of a delivery, its chunks joined.
RECURSIVE Joined(_)
Joined(chunks) == IF chunks = <<>> THEN <<>> ELSE Head(chunks) \o Joined(Tail(chunks))

\* What a client's first delivery is, told from its bytes alone:
\*   timeout, eof, ioerr   no line arrives within 10 seconds, or the stream
\*                         ends, or the read fails, before any byte
\*   oversized, nonutf8    a line that read_limited_line must refuse
\*   form                  a line that is not AUTHZ: <secret>
\*   secret                AUTHZ: <secret> with a secret other than the
\*                         configured one
\*   good                  AUTHZ: <secret> with the configured secret
HelloCase(d) ==
    LET bytes == Joined(d.chunks)
    IN  IF d.end = "timeout" THEN "timeout"
        ELSE IF bytes = <<>> THEN (IF d.end = "eof" THEN "eof" ELSE "ioerr")
        ELSE IF ChunkLen(bytes) > MAX_LINE_LENGTH THEN "oversized"
        ELSE IF \E i \in 1..Len(bytes) : bytes[i].k = "bad" THEN "nonutf8"
        ELSE IF ~(Len(bytes) >= 2 /\ bytes[1] = Tok("AUTHZ: ") /\ bytes[2].k = "secret")
             THEN "form"
        ELSE IF bytes[2].v = sentinel_secret THEN "good" ELSE "secret"

\* if secret != state.sentinel_secret { bail }
SecretAccepted_Any(secret) == TRUE
SecretAccepted(secret) == secret = <<Secret(sentinel_secret)>>

\* 1. The AUTHZ handshake: one line within 10 seconds, the prefix, the secret.
\* hello keeps what the client delivered.
Authz(s) ==
    /\ sess[s].pc = "authz"
    /\ \E d \in AuthzDeliveries :
         LET r == IF d.end = "timeout"
                  THEN ReadResult("timeout", 0, <<>>, <<>>)
                  ELSE read_limited_line(d.chunks, d.end)
             secret == StripPrefix(Trim(r.buf), "AUTHZ: ")
             accepted == /\ r.res = "ok"
                         /\ secret # None
                         /\ SecretAccepted(secret[2])
         IN  sess' = [sess EXCEPT ![s].pc = IF accepted THEN "lookup" ELSE "closed",
                                  ![s].rx = IF accepted THEN Delivery(r.rest, d.end)
                                            ELSE NoInput,
                                  ![s].hello = HelloCase(d)]
    /\ UNCHANGED <<storeVars, returned, adminOps, events, nonServer>>

\* 2. SELECT id, name FROM sentinels WHERE secret = $1
Lookup(s) ==
    /\ sess[s].pc = "lookup"
    /\ sess' = [sess EXCEPT ![s].pc = IF sentinel.exists THEN "increment" ELSE "create"]
    /\ UNCHANGED <<storeVars, returned, adminOps, events, nonServer>>

\* The secret is the lookup key of sentinels: a second row for it is refused.
SecretConflict(row) == row.exists

\* INSERT INTO sentinels (secret) VALUES ($1) RETURNING id, name; a refused
\* insert is an error that ends handle_connection.
Create(s) ==
    /\ sess[s].pc = "create"
    /\ IF SecretConflict(sentinel)
       THEN /\ sess' = [sess EXCEPT ![s].pc = "closed"]
            /\ sentinel' = sentinel
       ELSE /\ sess' = [sess EXCEPT ![s].pc = "increment"]
            /\ sentinel' = NewSentinelRow
    /\ UNCHANGED <<mode, cards, scanLog, logRows, returned, adminOps, events, nonServer>>

\* The increment and the SentinelConnected event.
Increment(s) ==
    /\ sess[s].pc = "increment"
    /\ sentinel' = IncrementRow(sentinel)
    /\ events' = Append(events, Ev("SentinelConnected", s, "", ""))
    /\ sess' = [sess EXCEPT ![s].pc = "active", ![s].authed = TRUE]
    /\ UNCHANGED <<mode, cards, scanLog, logRows, returned, adminOps, nonServer>>

\* Where handle_connection goes when the message loop ends.
AfterLoop_ErrorSkipsCleanup(why) == IF why = "ioerr" THEN "closed" ELSE "cleanup"
AfterLoop(why) == "cleanup"

\* The lines the clients have sent so far, all connections together.
RECURSIVE LinesSent(_)
LinesSent(n) == IF n = 0 THEN 0 ELSE sess[n].lines + LinesSent(n - 1)

\* What the environment may deliver next: one of the lines while the clients
\* have lines left to send, or the end of the stream.
Offered(lines, ends) ==
    IF LinesSent(MaxSessions) < MaxLines THEN lines \cup ends ELSE ends

\* The match on read_limited_line: Ok(0) and an error other than InvalidData
\* break out of the loop, InvalidData continues it.
LoopExit_InvalidData(res) == res \in {"eof", "ioerr", "invalid"}
LoopExit(res) == res \in {"eof", "ioerr"}

\* 3. One iteration of the message loop up to its first store statement: the
\* line is read and dispatched; a LOG line is inserted and, when the insert
\* succeeded, re-emitted.
ReadLineStep(s, lines, ends, inserted) ==
    /\ sess[s].pc = "active"
    /\ LET fresh == sess[s].rx = NoInput
       IN \E d \in (IF fresh THEN Offered(lines, ends) ELSE {sess[s].rx}) :
            LET r == read_limited_line(d.chunks, d.end)
                over == IF fresh
                        THEN d.end = "line" /\ LineLen(d.chunks) > MAX_LINE_LENGTH
                        ELSE sess[s].over
                m == IF r.res = "ok" THEN Dispatch(r.buf)
                     ELSE [kind |-> "none", payload |-> <<>>]
                rest == IF LoopExit(r.res) THEN NoInput
                        ELSE Delivery(r.rest, d.end)
                base == [sess[s] EXCEPT
                            !.rx = rest,
                            !.lines = IF fresh /\ d \in lines
                                      THEN sess[s].lines + 1 ELSE sess[s].lines,
                            !.over = over /\ rest # NoInput,
                            !.lastScan = NoScan,
                            !.last = [res |-> r.res, over |-> over, kind |-> m.kind, err |-> ""]]
            IN  /\ inserted \/ m.kind = "log"
                /\ sess' = [sess EXCEPT ![s] =
                     IF LoopExit(r.res)
                     THEN [base EXCEPT !.pc = AfterLoop(r.res)]
                     ELSE IF m.kind = "scan"
                     THEN [base EXCEPT !.pc = "scan_mode",
                                       !.scan = [NoScan EXCEPT !.tag = m.payload[1].v]]
                     ELSE base]
                /\ IF m.kind = "log" /\ inserted
                   THEN /\ logRows' = logRows + 1
                        /\ events' = Append(events, Ev("SentinelLog", s, m.payload, ""))
                   ELSE UNCHANGED <<logRows, events>>
    /\ UNCHANGED <<mode, cards, scanLog, sentinel, returned, adminOps, nonServer>>

ReadLine(s, lines, ends) == ReadLineStep(s, lines, ends, TRUE)

\* process_scan: SELECT value FROM system_config WHERE key = 'sentinel_mode',
\* fetched from the store on every call.
fetch_mode_Default(stored) == "guard"
fetch_mode(stored) == stored

ScanMode(s) ==
    /\ sess[s].pc = "scan_mode"
    /\ sess' = [sess EXCEPT ![s].pc = "scan_card", ![s].scan.mode = fetch_mode(mode)]
    /\ UNCHANGED <<storeVars, returned, adminOps, events, nonServer>>

\* if mode == "enroll", on the mode the call read.
Enrolling_Always(read) == TRUE
Enrolling(read) == read = "enroll"

\* process_scan: the enroll branch inserts the card; the other branch checks
\* that the card exists.
ScanCard(s) ==
    /\ sess[s].pc = "scan_card"
    /\ LET sc == sess[s].scan
       IN IF Enrolling(sc.mode)
          THEN /\ cards' = InsertCard(cards, sc.tag)
               /\ sess' = [sess EXCEPT ![s].pc = "scan_log",
                                       ![s].scan.action = "enrolled",
                                       ![s].scan.held = cards[sc.tag]]
          ELSE /\ cards' = cards
               /\ sess' = [sess EXCEPT
                     ![s].pc = IF ExistsCard(cards, sc.tag) THEN "scan_vendor" ELSE "scan_log",
                     ![s].scan.action = IF ExistsCard(cards, sc.tag) THEN "" ELSE "denied",
                     ![s].scan.held = cards[sc.tag]]
    /\ UNCHANGED <<mode, scanLog, sentinel, logRows, returned, adminOps, events, nonServer>>

\* Device::is_lock and UTec::discover_locks
is_lock(device) == device.category \in {"LOCK", "SmartLock"}
discover_locks_Unfiltered(devices) == devices
discover_locks(devices) == SelectSeq(devices, is_lock)

Dev(id, category) == [id |-> id, category |-> category]
\* What the vendor side answers during one granted scan.
\*   client    an authenticated client is available
\*   discover  <<"Err">> or <<"Ok", devices>>
\*   unlock    "Err" or "Ok"
\*   results   the device states of an unlock that answered Ok
VendorSample ==
    { [client |-> FALSE, discover |-> <<"Err">>, unlock |-> "Err", results |-> <<>>] }
      \cup { [client |-> TRUE, discover |-> d, unlock |-> u, results |-> <<>>] :
               d \in { <<"Err">>, <<"Ok", <<>> >>, <<"Ok", <<Dev("B1", "LIGHT")>> >>,
                       <<"Ok", <<Dev("B1", "LIGHT"), Dev("L1", "LOCK"), Dev("L2", "SmartLock")>> >> },
               u \in {"Err", "Ok"} }
      \cup { [client |-> TRUE, unlock |-> "Ok", results |-> <<Entry("L1", l[1], l[2])>>,
              discover |-> <<"Ok", <<Dev("B1", "LIGHT"), Dev("L1", "LOCK"), Dev("L2", "SmartLock")>> >>] :
               l \in { << <<"str", "Unlocked">>, <<"absent">> >>,
                       << <<"absent">>, <<"u64", U64(5)>> >> } }

\* A call made on the vendor side: auth_store.client(), discover_locks() or
\* unlock(lock).
Call(op, to) == [op |-> op, to |-> to]

\* The vendor calls of the granted branch, in order.
UnlockAttempt(v) ==
    IF ~v.client THEN <<Call("client", "")>>
    ELSE IF v.discover[1] = "Err" THEN <<Call("client", ""), Call("discover_locks", "")>>
    ELSE LET locks == discover_locks(v.discover[2])
         IN  IF locks = <<>> THEN <<Call("client", ""), Call("discover_locks", "")>>
             ELSE <<Call("client", ""), Call("discover_locks", ""),
                    Call("unlock", Head(locks).id)>>

\* The action of a scan whose card exists, whatever the unlock attempt did.
GrantedAction_IfUnlocked(v, calls) ==
    IF calls # <<>> /\ calls[Len(calls)].op = "unlock" /\ v.unlock = "Ok"
    THEN "granted" ELSE "denied"
GrantedAction(v, calls) == "granted"

\* process_scan: the unlock attempt of a granted scan.
ScanVendor(s) ==
    /\ sess[s].pc = "scan_vendor"
    /\ \E v \in VendorSample :
         sess' = [sess EXCEPT ![s].pc = "scan_log",
                              ![s].scan.calls = UnlockAttempt(v),
                              ![s].scan.vendor = v,
                              ![s].scan.action = GrantedAction(v, UnlockAttempt(v))]
    /\ UNCHANGED <<storeVars, returned, adminOps, events, nonServer>>

Return(s, ss) ==
    [ss EXCEPT ![s].pc = "active", ![s].lastScan = ss[s].scan, ![s].scan = NoScan]
Count(tag, action) == [returned EXCEPT ![tag][action] = @ + 1]

\* WsEvent::Scan { tag_id, action, created_at }
ScanEvent_ModeAsAction(s, sc) == Ev("Scan", s, sc.tag, sc.mode)
ScanEvent(s, sc) == Ev("Scan", s, sc.tag, sc.action)

\* process_scan: INSERT INTO scan_log, the Scan event, and the return of the
\* actions other than enrolled.
ScanLog(s) ==
    /\ sess[s].pc = "scan_log"
    /\ LET sc == sess[s].scan
           logged == [sess EXCEPT ![s].scan.row = Len(scanLog) + 1]
       IN /\ scanLog' = Append(scanLog, [tag |-> sc.tag, action |-> sc.action])
          /\ events' = Append(events, ScanEvent(s, sc))
          /\ IF sc.action = "enrolled"
             THEN /\ sess' = [logged EXCEPT ![s].pc = "scan_added"]
                  /\ returned' = returned
             ELSE /\ sess' = Return(s, logged)
                  /\ returned' = Count(sc.tag, sc.action)
    /\ UNCHANGED <<mode, cards, sentinel, logRows, adminOps, nonServer>>

\* SELECT id, tag_id, label, created_at FROM access_cards WHERE tag_id = $1
\* with fetch_optional: whether a row came back.
CardFetched_Never(table, tag_id) == FALSE
CardFetched(table, tag_id) == table[tag_id] > 0

\* process_scan: the card is fetched and CardAdded sent when it is there.
ScanAdded(s) ==
    /\ sess[s].pc = "scan_added"
    /\ LET sc == sess[s].scan
       IN /\ events' = IF CardFetched(cards, sc.tag)
                       THEN Append(events, Ev("CardAdded", s, sc.tag, ""))
                       ELSE events
          /\ sess' = Return(s, sess)
          /\ returned' = Count(sc.tag, sc.action)
    /\ UNCHANGED <<storeVars, adminOps, nonServer>>

\* 4. Disconnect cleanup: the decrement and the SentinelDisconnected event.
Cleanup(s) ==
    /\ sess[s].pc = "cleanup"
    /\ sentinel' = DecrementRow(sentinel)
    /\ events' = Append(events, Ev("SentinelDisconnected", s, "", ""))
    /\ sess' = [sess EXCEPT ![s].pc = "closed", ![s].decs = @ + 1]
    /\ UNCHANGED <<mode, cards, scanLog, logRows, returned, adminOps, nonServer>>

\* The requests an administrator may make.
ModeRequests == Modes \cup {"open"}

\* set_mode: a mode other than guard and enroll is refused; otherwise UPDATE
\* system_config and the ModeChanged event.
SetMode(m) ==
    /\ adminOps < MaxAdmin
    /\ adminOps' = adminOps + 1
    /\ IF m \notin Modes
       THEN UNCHANGED <<mode, events>>
       ELSE /\ mode' = m
            /\ events' = Append(events, Ev("ModeChanged", 0, m, ""))
    /\ UNCHANGED <<cards, scanLog, sentinel, logRows, sess, returned, nonServer>>

\* remove_card: DELETE FROM access_cards WHERE id = $1; CardRemoved when a row
\* was deleted, not found otherwise.
RemoveCard(t) ==
    /\ adminOps < MaxAdmin
    /\ adminOps' = adminOps + 1
    /\ IF cards[t] = 0
       THEN UNCHANGED <<cards, events>>
       ELSE /\ cards' = [cards EXCEPT ![t] = @ - 1]
            /\ events' = Append(events, Ev("CardRemoved", 0, t, ""))
    /\ UNCHANGED <<mode, scanLog, sentinel, logRows, sess, returned, nonServer>>

Next ==
    \/ \E s \in Sessions : Authz(s)
    \/ \E s \in Sessions : Lookup(s)
    \/ \E s \in Sessions : Create(s)
    \/ \E s \in Sessions : Increment(s)
    \/ \E s \in Sessions : ReadLine(s, PlainLines, PlainEnds)
    \/ \E s \in Sessions : ScanMode(s)
    \/ \E s \in Sessions : ScanCard(s)
    \/ \E s \in Sessions : ScanVendor(s)
    \/ \E s \in Sessions : ScanLog(s)
    \/ \E s \in Sessions : ScanAdded(s)
    \/ \E s \in Sessions : Cleanup(s)
    \/ \E m \in ModeRequests : SetMode(m)
    \/ \E t \in Tags : RemoveCard(t)

Spec == Init /\ [][Next]_vars

\* One connection whose client sends lines of any length and content, in any
\* chunking.
NextReader ==
    \/ Authz(1)
    \/ Lookup(1)
    \/ Create(1)
    \/ Increment(1)
    \/ ReadLine(1, LineDeliveries, StreamEnds)
    \/ ScanMode(1)
    \/ ScanCard(1)
    \/ ScanVendor(1)
    \/ ScanLog(1)
    \/ ScanAdded(1)
    \/ Cleanup(1)

SpecReader == Init /\ [][NextReader]_vars

\* --- store statements of the message loop that fail -------------------------

\* INSERT INTO sentinel_logs fails: the error is logged, no event is sent and
\* the loop goes on.
LogInsertFails(s, lines, ends) == ReadLineStep(s, lines, ends, FALSE)

\* process_scan returns Err from the statement it is at (the mode SELECT, the
\* card INSERT or SELECT EXISTS, the scan_log INSERT): nothing is written or
\* sent, the session logs the error and reads the next line.
ScanStatements == {"scan_mode", "scan_card", "scan_log"}
\* .map_err(|e| { error!(..); "Database error".to_string() })?
ScanError_Detail(statement) == statement
ScanError(statement) == "Database error"
ScanFails(s) ==
    /\ sess[s].pc \in ScanStatements
    /\ sess' = [sess EXCEPT ![s].pc = "active",
                            ![s].scan = NoScan,
                            ![s].last = [sess[s].last EXCEPT !.kind = "scan_err",
                                                             !.err = ScanError(sess[s].pc)]]
    /\ UNCHANGED <<storeVars, returned, adminOps, events, nonServer>>

\* process_scan: the SELECT of the enrolled card fails (.ok().flatten()): no
\* CardAdded event, the call still returns enrolled.
ScanAddedFails(s) ==
    /\ sess[s].pc = "scan_added"
    /\ sess' = Return(s, sess)
    /\ returned' = Count(sess[s].scan.tag, sess[s].scan.action)
    /\ UNCHANGED <<storeVars, adminOps, events, nonServer>>

NextFault ==
    \/ NextReader
    \/ LogInsertFails(1, LineDeliveries, StreamEnds)
    \/ ScanFails(1)
    \/ ScanAddedFails(1)

SpecFault == Init /\ [][NextFault]_vars

(***************************************************************************)
(* Properties of the sessions and of process_scan                          *)
(***************************************************************************)

\* A session that passed authentication and has not run its cleanup.
Live(s) == sess[s].authed /\ sess[s].decs = 0
EventsBy(s) == SelectSeq(events, LAMBDA e : e.by = s)
CountType(seq, type) == Len(SelectSeq(seq, LAMBDA e : e.type = type))
Rows(tag, action) == Len(SelectSeq(scanLog, LAMBDA r : r.tag = tag /\ r.action = action))

C2_EnrollIdempotent ==
    /\ [](/\ \A s \in Sessions :
               sess[s].lastScan.mode = "enroll" => sess[s].lastScan.action = "enrolled"
          /\ \A t \in Tags :
               /\ cards[t] <= 1
               /\ Rows(t, "enrolled") =
                    returned[t]["enrolled"]
                      + Cardinality({s \in Sessions : /\ sess[s].pc = "scan_added"
                                                      /\ sess[s].scan.tag = t}))
    /\ [][\A s \in Sessions :
            (/\ sess[s].pc = "scan_card"
             /\ sess'[s].pc # "scan_card"
             /\ sess[s].scan.mode = "enroll")
              => cards' = [cards EXCEPT ![sess[s].scan.tag] = 1]]_vars

\* Two enroll scans of one tag have returned, with one card and two rows.
C2_Witness ==
    /\ returned["T1"]["enrolled"] = 2
    /\ cards["T1"] = 1
    /\ Rows("T1", "enrolled") = 2

\* C3: a scan that read a mode other than enroll and found no card for its tag
\* never reaches the vendor client, returns denied with no vendor call made,
\* and the row it appended says denied.
C3_DeniedWithoutVendor ==
    \A s \in Sessions :
      /\ (sess[s].pc = "scan_vendor") => sess[s].scan.held > 0
      /\ (/\ sess[s].pc = "scan_log"
          /\ sess[s].scan.mode # "enroll"
          /\ sess[s].scan.held = 0) => /\ sess[s].scan.action = "denied"
                                       /\ sess[s].scan.calls = <<>>
      /\ (/\ sess[s].lastScan.tag # ""
          /\ sess[s].lastScan.mode # "enroll"
          /\ sess[s].lastScan.held = 0)
            => /\ sess[s].lastScan.action = "denied"
               /\ sess[s].lastScan.calls = <<>>
               /\ scanLog[sess[s].lastScan.row] =
                    [tag |-> sess[s].lastScan.tag, action |-> "denied"]

\* A guard-mode scan of a tag without a card has returned denied, while a card
\* for the other tag exists.
C3_Witness ==
    \E s \in Sessions :
      /\ sess[s].lastScan.tag = "T2"
      /\ sess[s].lastScan.mode = "guard"
      /\ sess[s].lastScan.held = 0
      /\ sess[s].lastScan.action = "denied"
      /\ cards["T1"] = 1

\* C4: while a line longer than MAX_LINE_LENGTH is taken from the stream, every
\* read returns InvalidData, nothing is dispatched and the connection stays in
\* its message loop.
C4_OversizedRejected ==
    \A s \in Sessions :
      sess[s].last.over => /\ sess[s].last.res = "invalid"
                           /\ sess[s].last.kind = "none"
                           /\ sess[s].pc = "active"

HelloFails == {"timeout", "eof", "ioerr", "oversized", "nonutf8", "form", "secret"}
C11_FailedHandshake ==
    /\ [](\A s \in Sessions :
            sess[s].hello \in HelloFails
              => /\ sess[s].pc = "closed"
                 /\ ~sess[s].authed
                 /\ sess[s].decs = 0
                 /\ EventsBy(s) = <<>>)
    /\ [][\A s \in Sessions :
            (sess[s].pc = "authz" /\ sess'[s].hello \in HelloFails)
              => (sentinel' = sentinel /\ events' = events)]_vars

\* A session was closed for a secret that is not the configured one, while no
\* sentinel row exists.
C11_Witness ==
    /\ sess[1].hello = "secret"
    /\ sess[1].pc = "closed"
    /\ ~sentinel.exists

\* C12: a connection whose first line is AUTHZ: <secret> is authenticated,
\* with a sentinel created for a secret that has none and the existing one
\* used otherwise: it is never closed before its increment.
C12_SelfRegister ==
    \A s \in Sessions :
      sess[s].hello \in {"good", "secret"}
        => /\ ~(sess[s].pc = "closed" /\ ~sess[s].authed)
           /\ sess[s].authed => sentinel.exists

\* The Scan events, in sending order.
ScanEvents == SelectSeq(events, LAMBDA e : e.type = "Scan")
\* The calls of a scan that went to the vendor's service.
VendorCalls(calls) == SelectSeq(calls, LAMBDA c : c.op # "client")
Unlocks(calls) == SelectSeq(calls, LAMBDA c : c.op = "unlock")
DiscoveryFailed(v) == v.client /\ v.discover[1] = "Err"
NoLockFound(v) ==
    /\ v.client /\ v.discover[1] = "Ok"
    /\ \A i \in 1..Len(v.discover[2]) : v.discover[2][i].category \notin {"LOCK", "SmartLock"}
UnlockTried(v) == v.client /\ v.discover[1] = "Ok" /\ ~NoLockFound(v)

\* C13: a guard-mode scan of a tag that has a card returns granted, with a
\* granted row and a granted Scan event, whether no vendor client is
\* authenticated (then nothing is asked of the vendor), discovery fails,
\* discovery finds no lock, the unlock fails or the unlock succeeds.
C13_GrantedWhateverVendor ==
    \A s \in Sessions :
      LET sc == sess[s].lastScan
      IN  (sc.mode = "guard" /\ sc.held > 0)
            => /\ sc.action = "granted"
               /\ scanLog[sc.row] = [tag |-> sc.tag, action |-> "granted"]
               /\ ScanEvents[sc.row] = Ev("Scan", s, sc.tag, "granted")
               /\ ~sc.vendor.client => VendorCalls(sc.calls) = <<>>

\* One scan was granted after a failed discovery and another after a failed
\* unlock.
C13_Witness ==
    /\ sess[1].lastScan.action = "granted" /\ DiscoveryFailed(sess[1].lastScan.vendor)
    /\ sess[2].lastScan.action = "granted"
    /\ UnlockTried(sess[2].lastScan.vendor) /\ sess[2].lastScan.vendor.unlock = "Err"

\* The first lock among the devices of a discovery result.
RECURSIVE FirstLock(_)
FirstLock(devices) ==
    IF Head(devices).category \in {"LOCK", "SmartLock"} THEN Head(devices).id
    ELSE FirstLock(Tail(devices))

\* C14: a scan issues at most one unlock command; a granted scan issues it
\* last, after a successful discovery that found a lock, to the first lock
\* found; a scan that is enrolled or denied issues none.
C14_OneUnlockFirstLock ==
    \A s \in Sessions : \A sc \in {sess[s].scan, sess[s].lastScan} :
      /\ Len(Unlocks(sc.calls)) <= 1
      /\ sc.action \in {"enrolled", "denied"} => sc.calls = <<>>
      /\ Unlocks(sc.calls) # <<>>
           => /\ sc.action = "granted"
              /\ UnlockTried(sc.vendor)
              /\ sc.calls = <<Call("client", ""), Call("discover_locks", ""),
                              Call("unlock", FirstLock(sc.vendor.discover[2]))>>
      /\ (sc.action = "granted" /\ ~UnlockTried(sc.vendor)) => Unlocks(sc.calls) = <<>>

\* A granted scan has unlocked the first lock, which is not the first device.
C14_Witness ==
    \E s \in Sessions :
      /\ sess[s].lastScan.action = "granted"
      /\ Unlocks(sess[s].lastScan.calls) = <<Call("unlock", "L1")>>
      /\ sess[s].lastScan.vendor.discover[2][1].id = "B1"

\* The process_scan calls that have returned, and those past their scan_log
\* insert that have not.
ScanActions == {"enrolled", "granted", "denied"}
RECURSIVE SumOver(_, _)
SumOver(S, f) ==
    IF S = {} THEN 0
    ELSE LET x == CHOOSE y \in S : TRUE IN f[x] + SumOver(S \ {x}, f)
Returned == SumOver(Tags \X ScanActions, [p \in Tags \X ScanActions |-> returned[p[1]][p[2]]])
Logging == Cardinality({s \in Sessions : sess[s].pc = "scan_added"})

\* C15: every process_scan call that returned an action appended one row
\* (tag, action) and then sent one Scan event with that tag and action: rows
\* and Scan events pair up in order, one pair per call; and scan_log only
\* grows, every step leaves the rows it had in place.
C15_OneRowOneEvent ==
    /\ [](/\ Len(scanLog) = Len(ScanEvents)
          /\ Len(scanLog) = Returned + Logging
          /\ \A i \in 1..Len(scanLog) :
               /\ ScanEvents[i].a = scanLog[i].tag
               /\ ScanEvents[i].b = scanLog[i].action
          /\ \A s \in Sessions :
               LET sc == sess[s].lastScan
               IN  sc.tag # "" => /\ scanLog[sc.row] = [tag |-> sc.tag, action |-> sc.action]
                                  /\ ScanEvents[sc.row] = Ev("Scan", s, sc.tag, sc.action))
    /\ [][/\ Len(scanLog') >= Len(scanLog)
          /\ SubSeq(scanLog', 1, Len(scanLog)) = scanLog]_vars

\* Two scans of different sessions have returned, one denied and one enrolled.
C15_Witness ==
    /\ Len(scanLog) = 2
    /\ sess[1].lastScan.action = "denied"
    /\ sess[2].lastScan.action = "enrolled"
    /\ Returned = 2

(***************************************************************************)
(* Properties of handle_lock_response                                      *)
(***************************************************************************)

\* The entries of a response that are about the commanded device.
EntriesOf(results, device_id) == SelectSeq(results, LAMBDA e : e.id = device_id)
\* The first of them carries a lock state; it carries none but a wait in
\* seconds.
HasLockState(results, device_id) ==
    /\ EntriesOf(results, device_id) # <<>>
    /\ EntriesOf(results, device_id)[1].lockState[1] = "str"
IsDeferred(results, device_id) ==
    /\ EntriesOf(results, device_id) # <<>>
    /\ EntriesOf(results, device_id)[1].lockState[1] # "str"
    /\ EntriesOf(results, device_id)[1].deferred[1] = "u64"
TasksOf(k) == {i \in 1..Len(tasks) : tasks[i].call = k}

\* C16: a handle_lock_response call spawns a resolver task iff the entry of
\* the commanded device has no lock state and carries a wait in seconds, and
\* then spawns one and has returned while that task still sleeps; with a lock
\* state it sends one LockState event in the call and spawns nothing; with
\* neither it sends nothing and spawns nothing.
C16_OneResolver ==
    /\ [](\A k \in 1..Len(lockCalls) :
            Cardinality(TasksOf(k)) =
              IF IsDeferred(lockCalls[k].results, lockCalls[k].device_id) THEN 1 ELSE 0)
    /\ [][Len(lockCalls') > Len(lockCalls)
            => LET c == lockCalls'[Len(lockCalls')]
               IN  IF HasLockState(c.results, c.device_id)
                   THEN /\ tasks' = tasks
                        /\ Len(events') = Len(events) + 1
                        /\ events'[Len(events')].type = "LockState"
                        /\ events'[Len(events')].device_id = c.device_id
                        /\ c.ret = Some(events'[Len(events')].lock_state)
                   ELSE IF IsDeferred(c.results, c.device_id)
                   THEN /\ events' = events
                        /\ Len(tasks') = Len(tasks) + 1
                        /\ SubSeq(tasks', 1, Len(tasks)) = tasks
                        /\ tasks'[Len(tasks')].pc = "sleep"
                        /\ c.ret = None
                   ELSE /\ events' = events
                        /\ tasks' = tasks
                        /\ c.ret = None]_vars

\* A call for a deferred response has returned and a second call was made
\* while the task of the first has not woken.
C16_Witness ==
    /\ Len(lockCalls) = 2
    /\ IsDeferred(lockCalls[1].results, "L1")
    /\ HasLockState(lockCalls[2].results, "L1")
    /\ Len(lockCalls[2].results) = 2
    /\ Len(tasks) = 1 /\ tasks[1].pc = "sleep"
    /\ Len(events) = 1

(***************************************************************************)
(* Properties of the sentinels row                                         *)
(***************************************************************************)

\* C19: in every state of the sentinels row, connected holds iff
\* active_connections is above zero, and active_connections is not negative.
C19_ConnectedIffCounted ==
    /\ sentinel.connected <=> sentinel.active_connections > 0
    /\ sentinel.active_connections >= 0

\* Two sessions were counted, one has since been cleaned up and one is live.
C19_Witness ==
    /\ sentinel.active_connections = 1
    /\ sentinel.connected
    /\ \E s, t \in Sessions :
          /\ sess[s].pc = "closed" /\ sess[s].authed /\ sess[s].decs = 1
          /\ sess[t].pc = "active"

(***************************************************************************)
(* The event bus: broadcast::channel(64) of main.rs, the producers that    *)
(* send on state.events and the three consumer loops.  Events are numbered *)
(* 1, 2, ... in sending order; a receiver's cursor is the number of the    *)
(* last event it has received or skipped.                                  *)
(***************************************************************************)
BUS_CAPACITY == 64
MaxSent == 66       \* events sent on the channel
MaxRecvs == 3       \* recv calls that returned, over all consumers

Receivers == {c \in Consumers : subs[c].st = "recv"}
RecvsDone == subs["email"].recvs + subs["push"].recvs + subs["ws"].recvs

\* Sender::send: not a future, it returns at once; Err when no receiver is
\* alive (the event is not kept), Ok otherwise, the event taking the place of
\* the oldest one once BUS_CAPACITY events are kept.
send(b, receivers) ==
    IF receivers = {} THEN [b EXCEPT !.res = "Err"]
    ELSE [b EXCEPT !.sent = @ + 1, !.res = "Ok"]

\* let _ = state.events.send(..): the result is dropped and the producer goes on.
AfterSend_Propagate(res) == IF res = "Err" THEN "failed" ELSE "run"
AfterSend(res) == "run"

Emit(p) ==
    /\ bus.open
    /\ bus.prod[p] = "run"
    /\ bus.sent < MaxSent
    /\ bus' = [send(bus, Receivers) EXCEPT !.prod[p] = AfterSend(send(bus, Receivers).res)]
    /\ UNCHANGED <<subs, decVars, scanVars, tagVars, events, lockVars, srvVars, fwVars>>

\* Receiver::recv: Lagged when the event after the cursor is no longer kept
\* (the cursor moves to just before the oldest kept event), else the next
\* event, else Closed when every sender is gone, else the call waits.
recv_LagSkipsAll(r, b) ==
    IF r.next < b.sent - BUS_CAPACITY THEN [res |-> "Lagged", next |-> b.sent, ev |-> 0]
    ELSE IF r.next < b.sent THEN [res |-> "Ok", next |-> r.next + 1, ev |-> r.next + 1]
    ELSE IF ~b.open THEN [res |-> "Closed", next |-> r.next, ev |-> 0]
    ELSE [res |-> "Pending", next |-> r.next, ev |-> 0]
recv(r, b) ==
    IF r.next < b.sent - BUS_CAPACITY
    THEN [res |-> "Lagged", next |-> b.sent - BUS_CAPACITY, ev |-> 0]
    ELSE IF r.next < b.sent THEN [res |-> "Ok", next |-> r.next + 1, ev |-> r.next + 1]
    ELSE IF ~b.open THEN [res |-> "Closed", next |-> r.next, ev |-> 0]
    ELSE [res |-> "Pending", next |-> r.next, ev |-> 0]

\* The match on rx.recv().await of the three loops: Ok handles the event and
\* loops, Lagged warns and loops, Closed returns (email, push) or breaks (ws).
AfterRecv_LagEnds(res) == IF res \in {"Closed", "Lagged"} THEN "ended" ELSE "recv"
AfterRecv(res) == IF res = "Closed" THEN "ended" ELSE "recv"

Recv(c) ==
    /\ subs[c].st = "recv"
    /\ RecvsDone < MaxRecvs
    /\ LET r == recv(subs[c], bus)
       IN  /\ r.res # "Pending"
           /\ subs' = [subs EXCEPT ![c] =
                  [st |-> AfterRecv(r.res),
                   next |-> r.next,
                   recvs |-> subs[c].recvs + 1,
                   lags |-> subs[c].lags + (IF r.res = "Lagged" THEN 1 ELSE 0),
                   last |-> IF r.res = "Ok" THEN r.ev ELSE subs[c].last,
                   cause |-> IF AfterRecv(r.res) = "ended" THEN r.res ELSE "none"]]
    /\ UNCHANGED <<bus, decVars, scanVars, tagVars, events, lockVars, srvVars, fwVars>>

\* ws_handler: state.events.subscribe() for a WebSocket client; the receiver
\* starts after the events already sent.
Subscribe ==
    /\ bus.open
    /\ subs["ws"].st = "none"
    /\ subs' = [subs EXCEPT !["ws"] = Receiver(bus.sent)]
    /\ UNCHANGED <<bus, decVars, scanVars, tagVars, events, lockVars, srvVars, fwVars>>

\* handle_socket: the socket closes or fails (socket.recv, or socket.send of
\* an event or a pong): break.
SocketEnds ==
    /\ subs["ws"].st = "recv"
    /\ subs' = [subs EXCEPT !["ws"] = [@ EXCEPT !.st = "ended", !.cause = "socket"]]
    /\ UNCHANGED <<bus, decVars, scanVars, tagVars, events, lockVars, srvVars, fwVars>>

\* main returns: the runtime drops the consumer tasks, and with them their
\* receivers, while a producer may still be running.
Halt ==
    /\ bus.open /\ ~bus.halt
    /\ bus' = [bus EXCEPT !.halt = TRUE]
    /\ subs' = [c \in Consumers |->
                 IF subs[c].st = "recv"
                 THEN [subs[c] EXCEPT !.st = "ended", !.cause = "dropped"]
                 ELSE subs[c]]
    /\ UNCHANGED <<decVars, scanVars, tagVars, events, lockVars, srvVars, fwVars>>

\* The last clone of state.events is dropped.
Close ==
    /\ bus.open
    /\ bus' = [bus EXCEPT !.open = FALSE]
    /\ UNCHANGED <<subs, decVars, scanVars, tagVars, events, lockVars, srvVars, fwVars>>

\* main: email_rx always, push_rx if VAPID keys are configured.
InitBus ==
    /\ DecodeIdle
    /\ ScanInit
    /\ TagIdIdle
    /\ LockIdle
    /\ ServerIdle
    /\ FirmwareIdle
    /\ events = <<>>
    /\ bus = NewBus
    /\ subs \in {[c \in Consumers |-> IF c = "email" THEN Receiver(0) ELSE NoReceiver],
                 [c \in Consumers |-> IF c = "ws" THEN NoReceiver ELSE Receiver(0)]}

NextBus ==
    \/ \E p \in Producers : Emit(p)
    \/ \E c \in Consumers : Recv(c)
    \/ Subscribe
    \/ SocketEnds
    \/ Halt
    \/ Close

SpecBus == InitBus /\ [][NextBus]_vars

(***************************************************************************)
(* Properties of the event bus                                             *)
(***************************************************************************)

\* The events a receiver has neither received nor skipped.
Behind(c) == bus.sent - subs[c].next

\* C17: a send never blocks its producer, whatever the receivers are doing:
\* while the channel is open every producer can take its send step, with no
\* receiver alive or with a receiver that is a full backlog behind, and every
\* producer is still running after it.
C17_SendNeverBlocks ==
    /\ \A p \in Producers : bus.prod[p] = "run"
    /\ (bus.open /\ bus.sent < MaxSent) => \A p \in Producers : ENABLED Emit(p)

\* A producer has sent past a consumer that never received and was a full
\* backlog behind, and then sent with no receiver left.
C17_Witness ==
    /\ bus.res = "Err"
    /\ Receivers = {}
    /\ subs["email"].recvs = 0
    /\ Behind("email") > BUS_CAPACITY
    /\ \A p \in Producers : bus.prod[p] = "run"

\* C18: the channel keeps the last 64 events.  A recv by a receiver more than
\* 64 events behind reports a lag, skips to the oldest kept event and leaves
\* the loop running; any other recv with events outstanding yields the next
\* event in sending order; a recv ends a loop only when the channel is
\* closed and the receiver has caught up.
C18_BoundedBacklog ==
    /\ [](\A c \in Consumers :
            /\ subs[c].st = "ended" => subs[c].cause \in {"Closed", "socket", "dropped"}
            /\ subs[c].cause = "socket" => c = "ws")
    /\ [][\A c \in Consumers :
            subs'[c].recvs = subs[c].recvs + 1
            => IF Behind(c) > BUS_CAPACITY
               THEN /\ subs'[c].lags = subs[c].lags + 1
                    /\ subs'[c].next = bus.sent - BUS_CAPACITY
                    /\ subs'[c].last = subs[c].last
                    /\ subs'[c].st = "recv"
               ELSE IF Behind(c) > 0
               THEN /\ subs'[c].lags = subs[c].lags
                    /\ subs'[c].last = subs[c].next + 1
                    /\ subs'[c].last > subs[c].last
                    /\ subs'[c].next = subs[c].next + 1
                    /\ subs'[c].st = "recv"
               ELSE /\ ~bus.open
                    /\ subs'[c].st = "ended"
                    /\ subs'[c].cause = "Closed"]_vars

\* A consumer fell more than 64 events behind, observed one lag, and has
\* since received the two oldest kept events; its loop is running.
C18_Witness ==
    \E c \in Consumers :
        /\ subs[c].st = "recv"
        /\ subs[c].lags = 1
        /\ subs[c].recvs = 3
        /\ subs[c].last = subs[c].next
        /\ subs[c].last >= 3

(***************************************************************************)
(* Properties of the message loop                                          *)
(***************************************************************************)

\* The positions of a session in the message loop: reading a line, or inside
\* the process_scan call of a line.
InLoop == {"active", "scan_mode", "scan_card", "scan_vendor", "scan_log", "scan_added"}

\* C20: a session leaves the message loop only from its read, and only when
\* the read returned end of stream or an error other than InvalidData; after
\* every other line, and after a failed sentinel_logs insert or a failed
\* process_scan, it is reading the next line.
C20_OnlyStreamEndCloses ==
    /\ [][\A s \in Sessions :
            (sess[s].pc \in InLoop /\ sess'[s].pc \notin InLoop)
            => /\ sess[s].pc = "active"
               /\ sess'[s].last.res \in {"eof", "ioerr"}
               /\ sess'[s].rx = NoInput]_vars
    /\ [][\A s \in Sessions :
            (sess[s].pc = "active" /\ sess'[s] # sess[s]
               /\ sess'[s].last.res \in {"ok", "invalid"})
            => \/ sess'[s].pc = "active"
               \/ sess'[s].pc = "scan_mode" /\ sess'[s].last.kind = "scan"]_vars

\* A first line had no effect, a second was a scan whose process_scan failed,
\* and the session is reading again.
C20_Witness ==
    /\ sess[1].pc = "active"
    /\ sess[1].lines = 2
    /\ sess[1].last.kind = "scan_err"
    /\ logRows = 0
    /\ scanLog = <<>>
    /\ Len(events) = 1

(***************************************************************************)
(* Properties of process_scan when a store statement fails                 *)
(***************************************************************************)

\* C21: a process_scan call sends nothing before its scan_log insert, and a
\* call that returns an error does so from one of its four store statements,
\* returns "Database error", appends no row, sends no event, and leaves its
\* session reading the next line.
C21_ScanErrorIsGeneric ==
    /\ [][\A s \in Sessions :
            (sess[s].pc \in {"scan_mode", "scan_card", "scan_vendor"} /\ sess'[s] # sess[s])
            => events' = events]_vars
    /\ [][\A s \in Sessions :
            (sess'[s] # sess[s] /\ sess'[s].last.err # "")
            => /\ sess[s].pc \in ScanStatements
               /\ sess'[s].last.err = "Database error"
               /\ sess'[s].pc = "active"
               /\ events' = events
               /\ scanLog' = scanLog]_vars

\* An enroll scan inserted its card and then failed at the scan_log insert:
\* the card is there, no row and no Scan or CardAdded event.
C21_Witness ==
    /\ sess[1].pc = "active"
    /\ sess[1].last.err = "Database error"
    /\ cards["T2"] = 1
    /\ scanLog = <<>>
    /\ CountType(events, "Scan") = 0
    /\ CountType(events, "CardAdded") = 0

(***************************************************************************)
(* Properties of the mode                                                  *)
(***************************************************************************)

\* C22: the first step of every process_scan call, on every session, takes
\* the mode that is in the store at that step, so a call that starts after
\* a set_mode has written decides by the written mode; and the call's
\* action follows the mode it read: enrolled iff that mode is enroll.
C22_ModeReadFresh ==
    /\ [][\A s \in Sessions :
            (sess[s].pc = "scan_mode" /\ sess'[s].pc = "scan_card")
            => sess'[s].scan.mode = mode]_vars
    /\ [](\A s \in Sessions :
            /\ sess[s].scan.action # "" =>
                  (sess[s].scan.action = "enrolled" <=> sess[s].scan.mode = "enroll")
            /\ sess[s].lastScan.tag # "" =>
                  (sess[s].lastScan.action = "enrolled" <=> sess[s].lastScan.mode = "enroll"))

\* A scan was decided in guard mode, then set_mode wrote enroll, then a scan
\* of another session was enrolled.
C22_Witness ==
    /\ Len(events) >= 3
    /\ \E i, j, k \in 1..Len(events) :
          /\ i < j /\ j < k
          /\ events[i].type = "Scan" /\ events[i].b \in {"denied", "granted"}
          /\ events[j].type = "ModeChanged" /\ events[j].a = "enroll"
          /\ events[k].type = "Scan" /\ events[k].b = "enrolled"
          /\ events[k].by # events[i].by

(***************************************************************************)
(* The sentinel firmware: the main loop, connect_panopticon,               *)
(* ensure_connected and send_scan of src/sentinel/src/main.rs, and         *)
(* DualLogger::log of src/sentinel/src/logger.rs.  A mutex guard's scope   *)
(* is one step; the logger takes the mutex with try_lock and skips when    *)
(* it is held.  Every connect and every write may fail.                    *)
(***************************************************************************)
SCAN_COOLDOWN == 5
MaxTime == 6        \* seconds the clock runs
MaxReads == 3       \* verified reads returned by scan_for_tag
MaxConnects == 2    \* TCP streams opened
MaxLogs == 1        \* LOG lines attempted

\* The results a connect or a write can have.
Outcomes(up) == IF up = "any" THEN BOOLEAN ELSE {up = "yes"}

notFirmware == <<decVars, scanVars, tagVars, events, lockVars, srvVars, busVars>>

Written(stream, line) == [streams EXCEPT ![stream] = Append(@, line)]

\* Time passes, at any point of the main thread.
Tick ==
    /\ clock < MaxTime
    /\ clock' = clock + 1
    /\ UNCHANGED <<fw, tcp_handle, streams, reports, notFirmware>>

\* connect_panopticon: TcpStream::connect_timeout; the new stream is a local
\* of the function until it is stored.
AfterConnect_StoreFirst(ok, ret) == IF ok THEN "store" ELSE ret
AfterConnect(ok, ret) == IF ok THEN "authz" ELSE ret

Connect ==
    /\ fw.pc = "conn"
    /\ \E ok \in Outcomes(fw.up) :
         /\ ok => Len(streams) < MaxConnects
         /\ streams' = IF ok THEN Append(streams, <<>>) ELSE streams
         /\ fw' = [fw EXCEPT !.pc = AfterConnect(ok, fw.ret),
                             !.stream = IF ok THEN Len(streams) + 1 ELSE 0]
    /\ UNCHANGED <<clock, tcp_handle, reports, notFirmware>>

\* connect_panopticon: stream.write_all(authz); a failure returns and drops
\* the stream.
SendAuthz ==
    /\ fw.pc = "authz"
    /\ \E ok \in Outcomes(fw.up) :
         /\ streams' = IF ok THEN Written(fw.stream, "AUTHZ") ELSE streams
         /\ fw' = [fw EXCEPT !.pc = IF ok THEN "store" ELSE fw.ret,
                             !.stream = IF ok THEN fw.stream ELSE 0]
    /\ UNCHANGED <<clock, tcp_handle, reports, notFirmware>>

\* connect_panopticon: *guard = Some(stream)
Store ==
    /\ fw.pc = "store"
    /\ fw.holder = "none"
    /\ tcp_handle' = fw.stream
    /\ fw' = [fw EXCEPT !.pc = fw.ret, !.stream = 0]
    /\ UNCHANGED <<clock, streams, reports, notFirmware>>

\* ensure_connected: connect_panopticon when the handle is empty.  The main
\* loop calls it when RECONNECT_INTERVAL has elapsed, send_scan as its first
\* statement.
ensure_connected(ret) ==
    IF tcp_handle = 0 THEN [fw EXCEPT !.pc = "conn", !.ret = ret]
    ELSE [fw EXCEPT !.pc = ret]

PeriodicEnsure ==
    /\ fw.pc = "idle"
    /\ tcp_handle = 0
    /\ fw' = ensure_connected("idle")
    /\ UNCHANGED <<clock, tcp_handle, streams, reports, notFirmware>>

\* main: the cooldown check on a verified read.
should_trigger_AnyTag(last_scan, tag, now) ==
    \/ last_scan = <<>>
    \/ now - last_scan[2] >= SCAN_COOLDOWN
should_trigger(last_scan, tag, now) ==
    \/ last_scan = <<>>
    \/ last_scan[1] # tag
    \/ now - last_scan[2] >= SCAN_COOLDOWN

\* main: scan_for_tag returned Some(tag); send_scan is called when the
\* cooldown check passes.
Read(tag) ==
    /\ fw.pc = "idle"
    /\ fw.reads < MaxReads
    /\ fw' = IF should_trigger(fw.last_scan, tag, clock)
             THEN [fw EXCEPT !.pc = "ensure", !.reads = @ + 1,
                             !.call = [NoCall EXCEPT !.tag = tag]]
             ELSE [fw EXCEPT !.reads = @ + 1]
    /\ UNCHANGED <<clock, tcp_handle, streams, reports, notFirmware>>

\* send_scan: ensure_connected(tcp_handle)
Ensure ==
    /\ fw.pc = "ensure"
    /\ fw.holder = "none"
    /\ fw' = ensure_connected("write1")
    /\ UNCHANGED <<clock, tcp_handle, streams, reports, notFirmware>>

Report(tag) == Append(reports, [tag |-> tag, time |-> clock])

\* send_scan: the first write under the lock.  Success returns; failure
\* clears the handle and goes to the reconnect; no stream is a warning.
FirstWrite ==
    /\ fw.pc = "write1"
    /\ IF tcp_handle = 0
       THEN /\ fw' = [fw EXCEPT !.pc = "stamp", !.call.outcome = "no stream"]
            /\ UNCHANGED <<tcp_handle, streams, reports>>
       ELSE \E ok \in Outcomes(fw.up) :
              IF ok
              THEN /\ streams' = Written(tcp_handle, "SCAN")
                   /\ reports' = Report(fw.call.tag)
                   /\ fw' = [fw EXCEPT !.pc = "stamp", !.call.writes = 1,
                                       !.call.outcome = "sent"]
                   /\ UNCHANGED tcp_handle
              ELSE /\ tcp_handle' = 0
                   /\ fw' = [fw EXCEPT !.pc = "conn", !.ret = "write2",
                                       !.call.writes = 1, !.call.reconnects = 1]
                   /\ UNCHANGED <<streams, reports>>
    /\ UNCHANGED <<clock, notFirmware>>

\* send_scan: the retry after the reconnect.  The call returns after it,
\* whatever its result.
AfterRetry_Again(ok) == IF ok THEN "stamp" ELSE "conn"
AfterRetry(ok) == "stamp"

Retry ==
    /\ fw.pc = "write2"
    /\ IF tcp_handle = 0
       THEN /\ fw' = [fw EXCEPT !.pc = "stamp", !.call.outcome = "dropped: no stream"]
            /\ UNCHANGED <<tcp_handle, streams, reports>>
       ELSE \E ok \in Outcomes(fw.up) :
              IF ok
              THEN /\ streams' = Written(tcp_handle, "SCAN")
                   /\ reports' = Report(fw.call.tag)
                   /\ fw' = [fw EXCEPT !.pc = AfterRetry(ok), !.call.writes = @ + 1,
                                       !.call.outcome = "sent on retry"]
                   /\ UNCHANGED tcp_handle
              ELSE /\ tcp_handle' = 0
                   /\ fw' = [fw EXCEPT !.pc = AfterRetry(ok), !.call.writes = @ + 1,
                                       !.call.outcome = "dropped: write failed"]
                   /\ UNCHANGED <<streams, reports>>
    /\ UNCHANGED <<clock, notFirmware>>

\* main: last_scan = Some((tag, Instant::now())) after send_scan returned.
Stamp ==
    /\ fw.pc = "stamp"
    /\ fw' = [fw EXCEPT !.pc = "idle", !.last_scan = <<fw.call.tag, clock>>]
    /\ UNCHANGED <<clock, tcp_handle, streams, reports, notFirmware>>

\* DualLogger::log, from any thread while the mutex is free: a LOG line on
\* the stored stream; a failed write clears the handle.
Log ==
    /\ tcp_handle # 0
    /\ fw.logs < MaxLogs
    /\ fw' = [fw EXCEPT !.logs = @ + 1]
    /\ \E ok \in Outcomes(fw.up) :
         IF ok THEN /\ streams' = Written(tcp_handle, "LOG")
                    /\ UNCHANGED tcp_handle
         ELSE /\ tcp_handle' = 0
              /\ UNCHANGED streams
    /\ UNCHANGED <<clock, reports, notFirmware>>

InitFirmware ==
    /\ DecodeIdle
    /\ ScanInit
    /\ TagIdIdle
    /\ LockIdle
    /\ BusIdle
    /\ ServerIdle
    /\ events = <<>>
    /\ clock = 0
    /\ fw = Booting
    /\ tcp_handle = 0
    /\ streams = <<>>
    /\ reports = <<>>

NextFirmware ==
    \/ Tick
    \/ Connect
    \/ SendAuthz
    \/ Store
    \/ PeriodicEnsure
    \/ \E tag \in Tags : Read(tag)
    \/ Ensure
    \/ FirstWrite
    \/ Retry
    \/ Stamp
    \/ Log

SpecFirmware == InitFirmware /\ [][NextFirmware]_vars

(***************************************************************************)
(* Properties of the firmware                                              *)
(***************************************************************************)

\* C23: one send_scan call writes the SCAN line at most twice and reconnects
\* at most once, and only after a failed first write, which clears the
\* handle; the step after the retry returns from the call whatever the
\* retry's result; a call that dropped its scan leaves the handle empty.
C23_OneRetry ==
    /\ [](/\ fw.call.writes <= 2
          /\ fw.call.reconnects <= 1
          /\ fw.call.writes = 2 => fw.call.reconnects = 1
          /\ fw.pc = "write2" => (fw.call.writes = 1 /\ fw.call.reconnects = 1)
          /\ (fw.pc = "stamp" /\ fw.call.outcome \in {"dropped: no stream", "dropped: write failed"})
                => tcp_handle = 0)
    /\ [][/\ (fw.pc = "write1" /\ fw'.pc = "conn")
               => (tcp_handle # 0 /\ tcp_handle' = 0 /\ streams' = streams /\ fw'.ret = "write2")
          /\ (fw.pc = "write2" /\ fw'.pc # "write2") => fw'.pc = "stamp"
          /\ (fw.pc \in {"write1", "write2"} /\ fw' # fw)
               => Len(reports') <= Len(reports) + 1]_vars

\* The first write failed, the reconnect stored a new stream, and the retry
\* failed too: the scan is dropped after two writes and one reconnect.
C23_Witness ==
    /\ fw.pc = "stamp"
    /\ fw.call.outcome = "dropped: write failed"
    /\ fw.call.writes = 2
    /\ fw.call.reconnects = 1
    /\ Len(streams) = 2
    /\ streams[2] = <<"AUTHZ">>
    /\ tcp_handle = 0

\* C24: on every stream the first line written is AUTHZ, and the stream in
\* the handle is one on which AUTHZ has been written: no LOG or SCAN line
\* precedes it.
C24_AuthzFirst ==
    /\ \A i \in 1..Len(streams) : streams[i] # <<>> => streams[i][1] = "AUTHZ"
    /\ tcp_handle # 0 => (streams[tcp_handle] # <<>> /\ streams[tcp_handle][1] = "AUTHZ")
    /\ \A i \in 1..Len(streams) : \A k \in 2..Len(streams[i]) : streams[i][k] # "AUTHZ"

\* A second stream was opened by a reconnect while the logger was writing:
\* both streams carry AUTHZ first, then a LOG and a SCAN line.
C24_Witness ==
    /\ Len(streams) = 2
    /\ streams[1] = <<"AUTHZ", "LOG">>
    /\ streams[2] = <<"AUTHZ", "SCAN">>
    /\ tcp_handle = 2

\* C25: two SCAN reports of one tag are at least SCAN_COOLDOWN apart.
C25_PerTagCooldown ==
    \A i, j \in 1..Len(reports) :
        (i < j /\ reports[i].tag = reports[j].tag)
        => reports[j].time - reports[i].time >= SCAN_COOLDOWN

(***************************************************************************)
(* Properties of read_limited_line after a rejected line                   *)
(***************************************************************************)

\* C26: when read_limited_line has rejected a line, nothing of that line is
\* left in the stream: the next call starts after the line's newline or at
\* the end of the stream.
C26_RejectedLineConsumed ==
    \A s \in Sessions :
      sess[s].last.res = "invalid" => sess[s].rx.chunks = <<>>

(***************************************************************************)
(* Properties of the parity tests of decode_tag                            *)
(***************************************************************************)

\* The cell of row r (0..10) and column c (0..4) as decode_tag samples it.
Cell(sig, r, c) == sig.cells[r * 5 + c + 1]
RowEven(sig, r) ==
    (Cell(sig, r, 0) + Cell(sig, r, 1) + Cell(sig, r, 2) + Cell(sig, r, 3) + Cell(sig, r, 4)) % 2 = 0
RECURSIVE ColCount(_, _, _)
ColCount(sig, c, r) == IF r < 0 THEN 0 ELSE Cell(sig, r, c) + ColCount(sig, c, r - 1)
ColEven(sig, c) == ColCount(sig, c, 10) % 2 = 0
Accepted == dOut # Pending /\ dOut # None

\* C27 as claimed: a frame is accepted only if its 10 data rows have even
\* parity and all 5 columns, summed over the 11 rows, are even.
C27_FiveColumnsEven ==
    Accepted => /\ \A r \in 0..9 : RowEven(dSig.sig, r)
                /\ \A c \in 0..4 : ColEven(dSig.sig, c)

\* C27 as amended: a frame is accepted only if its 10 data rows have even
\* parity and the 4 data columns, summed over the 11 rows, are even.
C27_FourColumnsEven ==
    Accepted => /\ \A r \in 0..9 : RowEven(dSig.sig, r)
                /\ \A c \in 0..3 : ColEven(dSig.sig, c)

\* An accepted frame whose fifth column is odd.
C27_Witness ==
    /\ Accepted
    /\ dSig.flip = 0
    /\ \A c \in 0..3 : ColEven(dSig.sig, c)
    /\ ~ColEven(dSig.sig, 4)

(***************************************************************************)
(* Properties of concurrent enroll scans                                   *)
(***************************************************************************)

\* C28: in every state access_cards holds at most one card per tag, and every
\* process_scan call that read the mode enroll has the action enrolled once
\* its insert has run, whatever calls of other sessions run in between.
C28_OneCardPerTag ==
    /\ \A t \in Tags : cards[t] <= 1
    /\ \A s \in Sessions :
         /\ (sess[s].pc \in {"scan_log", "scan_added"} /\ sess[s].scan.mode = "enroll")
               => sess[s].scan.action = "enrolled"
         /\ (sess[s].lastScan.tag # "" /\ sess[s].lastScan.mode = "enroll")
               => (sess[s].lastScan.action = "enrolled" /\ returned[sess[s].lastScan.tag]["enrolled"] >= 1)

\* Two sessions are inside process_scan for the same tag at once, both past
\* their insert: the first found no card, the second found the first's.
C28_Witness ==
    /\ sess[1].pc = "scan_log" /\ sess[2].pc = "scan_log"
    /\ sess[1].scan.tag = "T2" /\ sess[2].scan.tag = "T2"
    /\ sess[1].scan.action = "enrolled" /\ sess[2].scan.action = "enrolled"
    /\ sess[1].scan.held + sess[2].scan.held = 1
    /\ cards["T2"] = 1

(***************************************************************************)
(* Properties of the resolver task                                         *)
(***************************************************************************)

\* The steps of resolver task i: from sleep to poll, and from poll to done.
Woke(i) == tasks[i].pc = "sleep" /\ tasks'[i].pc = "poll"
Polled(i) == tasks[i].pc = "poll" /\ tasks'[i].pc = "done"
Resolved(outcome) == outcome \in {"locked", "unlocked"}

\* C29 as stated: every resolver task that has ended made exactly one device
\* query, also the one that found no vendor client.
C29_ExactlyOneQuery ==
    \A i \in 1..Len(tasks) : tasks[i].pc = "done" => tasks[i].queries = 1

\* C29, amended: a resolver task makes no query while it sleeps, and after
\* its sleep one query when a vendor client is available and none when not,
\* and then has ended; the poll step sends exactly one LockState event, for
\* the commanded device, when the query succeeded with a lock state and
\* nothing otherwise; an ended task never runs again.
C29_OnePollNoRetry ==
    /\ [](\A i \in 1..Len(tasks) :
            /\ tasks[i].pc \in {"sleep", "poll"}
                  => (tasks[i].queries = 0 /\ tasks[i].outcome = "none")
            /\ tasks[i].pc = "done"
                  => tasks[i].queries = IF tasks[i].outcome = "noclient" THEN 0 ELSE 1)
    /\ [][\A i \in 1..Len(tasks) :
            /\ Woke(i) => events' = events
            /\ Polled(i) =>
                  IF Resolved(tasks'[i].outcome)
                  THEN events' = Append(events,
                           LockStateEvent(tasks[i].device_id, tasks'[i].outcome))
                  ELSE events' = events
            /\ tasks[i].pc = "done" => tasks'[i] = tasks[i]
            /\ tasks[i].pc = "poll" => tasks'[i].pc \in {"poll", "done"}]_vars

\* Two tasks have ended: one whose query failed, and sent nothing, and one
\* whose query resolved a lock state, and sent the only event there is.
C29_Witness ==
    /\ Len(tasks) = 2
    /\ tasks[1].pc = "done" /\ tasks[1].outcome = "error" /\ tasks[1].queries = 1
    /\ tasks[2].pc = "done" /\ tasks[2].outcome = "unlocked" /\ tasks[2].queries = 1
    /\ events = <<LockStateEvent("L1", "unlocked")>>

(***************************************************************************)
(* Properties of the unlock of a granted scan                              *)
(***************************************************************************)

\* A finished process_scan call whose unlock command was answered with a
\* deferred completion for the lock it commanded.
DeferredUnlock(scan) ==
    /\ scan.action = "granted"
    /\ Unlocks(scan.calls) # <<>>
    /\ scan.vendor.unlock = "Ok"
    /\ IsDeferred(scan.vendor.results, Unlocks(scan.calls)[1].to)

\* C30: once a granted scan whose unlock reported a deferred completion has
\* returned, a resolver task for the commanded lock has been scheduled.
C30_ScanUnlockResolved ==
    \A s \in Sessions :
        DeferredUnlock(sess[s].lastScan)
          => \E i \in 1..Len(tasks) :
                tasks[i].device_id = Unlocks(sess[s].lastScan.calls)[1].to

(***************************************************************************)
(* decode_tag poll by poll: src/sentinel/src/rfiduino.rs                   *)
(*                                                                         *)
(* The levels decode_tag samples one bit period after a transition come    *)
(* from dSig (high1, header, cells); what each poll of a wait loop sees is *)
(* free: the line has flipped or it has not.  A line stuck high or stuck   *)
(* low is the behaviour in which no poll ever sees a flip.                 *)
(***************************************************************************)

\* time_count += 1 on a u16
Incr(time_count) == (time_count + 1) % 65536

\* The test of the start-of-frame wait, and the test of the other waits.
StartTimedOut(time_count) == time_count >= TIMEOUT
TimedOut_Never(time_count) == FALSE
TimedOut(time_count) == time_count = TIMEOUT

\* return value; `at` keeps the loop the return statement belongs to.
PollReturn(value) == [poll EXCEPT !.pc = "done", !.ret = value, !.at = poll.pc]

\* while self.demod_out.is_low() { if time_count >= TIMEOUT { break; } time_count += 1; }
\* if time_count >= 600 { return None; }
StartWait ==
    /\ poll.pc = "start"
    /\ \E is_low \in BOOLEAN :
         poll' = IF is_low /\ ~StartTimedOut(poll.time_count)
                 THEN [poll EXCEPT !.time_count = Incr(@)]
                 ELSE IF poll.time_count >= StartLimit THEN PollReturn(None)
                 ELSE [poll EXCEPT !.pc = "check"]
    /\ UNCHANGED <<dSig, dOut, scanVars, tagVars, events, lockVars, srvVars, busVars, fwVars>>

\* Ets::delay_us(DELAY_VAL); if !self.demod_out.is_high() { return None; }
StartCheck ==
    /\ poll.pc = "check"
    /\ poll' = IF ~dSig.sig.high1 THEN PollReturn(None)
               ELSE [poll EXCEPT !.pc = "hwait", !.i = 0, !.time_count = 0]
    /\ UNCHANGED <<dSig, dOut, scanVars, tagVars, events, lockVars, srvVars, busVars, fwVars>>

\* The wait of header bit i: on a timeout header_ok is cleared, both loops
\* are left and the call returns None.
HeaderWait ==
    /\ poll.pc = "hwait"
    /\ \E is_high \in BOOLEAN :
         poll' = IF ~is_high THEN [poll EXCEPT !.pc = "hsample"]
                 ELSE IF TimedOut(poll.time_count) THEN PollReturn(None)
                 ELSE [poll EXCEPT !.time_count = Incr(@)]
    /\ UNCHANGED <<dSig, dOut, scanVars, tagVars, events, lockVars, srvVars, busVars, fwVars>>

\* Ets::delay_us(DELAY_VAL); if self.demod_out.is_low() { break; } i += 1;
\* and, once the loop is left, if i != 8 { return None; }
HeaderSample ==
    /\ poll.pc = "hsample"
    /\ poll' = IF dSig.sig.header[poll.i + 1] = 0 THEN PollReturn(None)
               ELSE IF poll.i + 1 < 8
               THEN [poll EXCEPT !.pc = "hwait", !.i = @ + 1, !.time_count = 0]
               ELSE [poll EXCEPT !.pc = "ewait", !.i = @ + 1, !.time_count = 0]
    /\ UNCHANGED <<dSig, dOut, scanVars, tagVars, events, lockVars, srvVars, busVars, fwVars>>

\* Wait for current HIGH to end.
EndHeaderWait ==
    /\ poll.pc = "ewait"
    /\ \E is_high \in BOOLEAN :
         poll' = IF ~is_high THEN [poll EXCEPT !.pc = "sample", !.row = 0, !.col = 0]
                 ELSE IF TimedOut(poll.time_count) THEN PollReturn(None)
                 ELSE [poll EXCEPT !.time_count = Incr(@)]
    /\ UNCHANGED <<dSig, dOut, scanVars, tagVars, events, lockVars, srvVars, busVars, fwVars>>

\* The body of the column loop up to the wait: sample, store, add to the
\* parities, time_count = 0.
CellSample ==
    /\ poll.pc = "sample"
    /\ LET dat == dSig.sig.cells[poll.row * 5 + poll.col + 1]
           j   == (poll.row \div 2) + 1
       IN  poll' = [poll EXCEPT
                      !.pc = "cwait",
                      !.buf[j] = StoreCell(@, poll.row, poll.col, dat),
                      !.row_parity = @ + dat,
                      !.col_parity[poll.col + 1] = (@ + dat) % 256,
                      !.current = dat,
                      !.time_count = 0]
    /\ UNCHANGED <<dSig, dOut, scanVars, tagVars, events, lockVars, srvVars, busVars, fwVars>>

\* What follows the wait of a cell: the next column, or the row-parity test
\* and the next row, or the column-parity test and the return.
AfterCell ==
    IF poll.col < 4 THEN [poll EXCEPT !.pc = "sample", !.col = @ + 1]
    ELSE IF RowParityBad(poll.row, poll.row_parity) THEN PollReturn(None)
    ELSE IF poll.row < 10
    THEN [poll EXCEPT !.pc = "sample", !.row = @ + 1, !.col = 0, !.row_parity = 0]
    ELSE IF ColParityBad(poll.col_parity) THEN PollReturn(None)
    ELSE PollReturn(Some(poll.buf))

\* while self.demod_out.is_high() == current { if time_count == TIMEOUT { return None; } time_count += 1; }
CellWait ==
    /\ poll.pc = "cwait"
    /\ \E same \in BOOLEAN :
         poll' = IF ~same THEN AfterCell
                 ELSE IF TimedOut(poll.time_count) THEN PollReturn(None)
                 ELSE [poll EXCEPT !.time_count = Incr(@)]
    /\ UNCHANGED <<dSig, dOut, scanVars, tagVars, events, lockVars, srvVars, busVars, fwVars>>

\* A frame of each kind: clean, a data bit flipped, a bit of the parity row
\* flipped, the second sample low, a header bit low.
PollSignals ==
    { d \in FramedSignals : d.tag = <<128, 35, 76, 35, 128>> /\ d.last = 0 /\ d.flip \in {0, 7, 52} }
      \cup { d \in NoisySignals :
               /\ d.sig.lowPolls = 0 /\ d.sig.stall = 0
               /\ \/ ~d.sig.high1 /\ d.sig.header = HeaderOnes
                  \/ d.sig.high1 /\ d.sig.header # HeaderOnes }

InitPoll ==
    /\ dSig \in PollSignals
    /\ dOut = Pending
    /\ poll = PollIdle
    /\ ScanInit
    /\ TagIdIdle
    /\ LockIdle
    /\ BusIdle
    /\ FirmwareIdle
    /\ ServerIdle
    /\ events = <<>>

NextPoll ==
    \/ StartWait
    \/ StartCheck
    \/ HeaderWait
    \/ HeaderSample
    \/ EndHeaderWait
    \/ CellSample
    \/ CellWait

\* decode_tag is a synchronous busy-wait loop that owns its thread: while the
\* call has not returned, its next poll is taken.
SpecPoll == InitPoll /\ [][NextPoll]_vars /\ WF_vars(NextPoll)

(***************************************************************************)
(* Properties of the waits of decode_tag                                   *)
(***************************************************************************)

\* The position of the call in program order, and a measure that counts the
\* polls of the current wait within it.
Position(p) ==
    CASE p.pc = "start"   -> 0
      [] p.pc = "check"   -> 1
      [] p.pc = "hwait"   -> 2 + 2 * p.i
      [] p.pc = "hsample" -> 3 + 2 * p.i
      [] p.pc = "ewait"   -> 18
      [] p.pc = "sample"  -> 19 + 2 * (p.row * 5 + p.col)
      [] p.pc = "cwait"   -> 20 + 2 * (p.row * 5 + p.col)
      [] OTHER            -> 130
Measure(p) == Position(p) * (TIMEOUT + 1) + p.time_count
InWait(p) == p.pc \in {"start", "hwait", "ewait", "cwait"}

\* C31: decode_tag returns on every signal.  No wait polls more than TIMEOUT
\* times without a transition; every step is one more poll of the same wait
\* or moves on in program order; a call that returns from a wait other than
\* that of the last cell, or from the start wait after 600 polls, returns
\* None; and the call, which keeps polling, does return.
C31_DecodeTerminates ==
    /\ [](poll.time_count <= TIMEOUT)
    /\ [][/\ Measure(poll') > Measure(poll)
          /\ (InWait(poll) /\ poll'.pc = poll.pc) => poll'.time_count = poll.time_count + 1
          /\ (InWait(poll) /\ poll.time_count = TIMEOUT) => poll'.pc # poll.pc
          /\ (InWait(poll) /\ poll'.pc = "done" /\ ~(poll.row = 10 /\ poll.col = 4))
                => poll'.ret = None
          /\ (poll.pc = "start" /\ poll.time_count >= StartLimit /\ poll'.pc # "start")
                => (poll'.pc = "done" /\ poll'.ret = None)]_vars
    /\ <>(poll.pc = "done")

\* The wait after a cell of the sixth row saw no transition for TIMEOUT
\* polls and the call returned None.
C31_Witness ==
    /\ poll.pc = "done" /\ poll.at = "cwait"
    /\ poll.row = 5 /\ poll.col = 2
    /\ poll.time_count = TIMEOUT
    /\ poll.ret = None

(***************************************************************************)
(* Properties of the debounce state of scan_for_tag                        *)
(***************************************************************************)

\* The successful decodes since construction or reset_scan began with two
\* different tags.
Mismatched == Len(scanHist) >= 2 /\ scanHist[1] # scanHist[2]

\* C32: after a pending read A and a successful decode of B # A the call
\* returns None and read_count is 0 again; the next successful decode is
\* stored as a first read and returns None; a further successful decode of
\* the same tag returns Some of it.  Failed decodes may lie in between.
C32_MismatchResets ==
    Mismatched =>
        /\ Len(scanHist) = 2 =>
              /\ read_count = 0
              /\ DecodedNow => scanRet.ret = None
        /\ Len(scanHist) = 3 =>
              /\ read_count = 1
              /\ scan_buffer = scanHist[3]
              /\ DecodedNow => scanRet.ret = None
        /\ (Len(scanHist) = 4 /\ DecodedNow) =>
              /\ read_count = 0
              /\ scanRet.ret = IF scanHist[4] = scanHist[3] THEN Some(scanHist[4]) ELSE None

\* The decode sequence A, B, B, B: the fourth call returned Some(B).
C32_Witness ==
    /\ scanHist = << <<128, 35, 76, 35, 128>>, <<35, 35, 35, 35, 35>>,
                    <<35, 35, 35, 35, 35>>, <<35, 35, 35, 35, 35>> >>
    /\ DecodedNow
    /\ scanRet.ret = Some(<<35, 35, 35, 35, 35>>)

\* C40: a scan_for_tag call whose decode failed returns None and leaves
\* read_count and scan_buffer as they were; read_count is 0 or 1 between
\* calls; a pending first read followed by any failed attempts is confirmed
\* by the next successful decode of the same tag.
C40_FailedDecodeKeepsState ==
    /\ [](read_count \in {0, 1})
    /\ [][(/\ read_count = 1 /\ IsScanCall /\ scanRet.decoded = None
            /\ Len(scanHist') = Len(scanHist) + 1
            /\ scanHist'[Len(scanHist')] = scan_buffer)
            => (scanRet'.ret = Some(scan_buffer) /\ read_count' = 0)]_vars
    /\ [][(scanRet'.call = "scan" /\ scanRet'.decoded = None /\ scanRet' # scanRet)
            => /\ read_count' = read_count
               /\ scan_buffer' = scan_buffer
               /\ scanRet'.ret = None]_vars
    /\ [][(scanRet'.call = "scan" /\ scanHist' = scanHist)
            => (read_count' = read_count /\ scan_buffer' = scan_buffer)]_vars

\* A first read is pending and the call after it failed to decode.
C40_Witness ==
    /\ read_count = 1
    /\ scan_buffer = <<76, 128, 76, 128, 76>>
    /\ scanHist = << <<76, 128, 76, 128, 76>> >>
    /\ IsScanCall /\ scanRet.decoded = None /\ scanRet.ret = None

(***************************************************************************)
(* The periodic reconnect check of the main loop: src/sentinel/src/main.rs *)
(*                                                                         *)
(* The server is reachable or not, and changes between the two at any      *)
(* time; the loop's timer is kept as the seconds elapsed since             *)
(* last_reconnect_check.  The absolute clock stands still here, so of the  *)
(* verified reads only those that pass the cooldown check at one instant   *)
(* are reported.                                                           *)
(***************************************************************************)
RECONNECT_INTERVAL == 30

\* A second of loop time passes.
Elapse ==
    /\ fw.elapsed < RECONNECT_INTERVAL
    /\ fw' = [fw EXCEPT !.elapsed = @ + 1]
    /\ UNCHANGED <<clock, tcp_handle, streams, reports, notFirmware>>

\* if last_reconnect_check.elapsed() >= RECONNECT_INTERVAL { ensure_connected(tcp_handle); ...
TimerDue_Never(elapsed) == FALSE
TimerDue(elapsed) == elapsed >= RECONNECT_INTERVAL

TimerCheck ==
    /\ fw.pc = "idle"
    /\ TimerDue(fw.elapsed)
    /\ fw' = ensure_connected("checked")
    /\ UNCHANGED <<clock, tcp_handle, streams, reports, notFirmware>>

\* ... last_reconnect_check = Instant::now(); }
Checked ==
    /\ fw.pc = "checked"
    /\ fw' = [fw EXCEPT !.pc = "idle", !.elapsed = 0]
    /\ UNCHANGED <<clock, tcp_handle, streams, reports, notFirmware>>

\* The server, or the network on the way to it, goes away and comes back.
ServerDown ==
    /\ fw.up = "yes"
    /\ fw' = [fw EXCEPT !.up = "no"]
    /\ UNCHANGED <<clock, tcp_handle, streams, reports, notFirmware>>
ServerUp ==
    /\ fw.up = "no"
    /\ fw' = [fw EXCEPT !.up = "yes"]
    /\ UNCHANGED <<clock, tcp_handle, streams, reports, notFirmware>>

InitReconnect ==
    /\ DecodeIdle
    /\ ScanInit
    /\ TagIdIdle
    /\ LockIdle
    /\ BusIdle
    /\ ServerIdle
    /\ events = <<>>
    /\ clock = 0
    /\ fw \in {[Booting EXCEPT !.up = u] : u \in {"yes", "no"}}
    /\ tcp_handle = 0
    /\ streams = <<>>
    /\ reports = <<>>

\* The steps of the main thread.
MainLoop ==
    \/ Connect
    \/ SendAuthz
    \/ Store
    \/ TimerCheck
    \/ Checked
    \/ Ensure
    \/ FirstWrite
    \/ Retry
    \/ Stamp

NextReconnect ==
    \/ MainLoop
    \/ \E tag \in Tags : Read(tag)
    \/ Log
    \/ Elapse
    \/ ServerDown
    \/ ServerUp

\* The main thread keeps running and time keeps passing; that a tag is read,
\* that something is logged or that the server changes is not required.
SpecReconnect ==
    InitReconnect /\ [][NextReconnect]_vars /\ WF_vars(MainLoop) /\ WF_vars(Elapse)

\* C33: while the main loop runs, an empty handle with the server reachable
\* leads to a stored stream whose first line is AUTHZ, unless the server
\* becomes unreachable first; and the periodic check alone does it: a check
\* started with an empty handle and the server reachable throughout ends
\* with the handle set.
C33_HandleRestored ==
    /\ (tcp_handle = 0 /\ fw.up = "yes" /\ Len(streams) < MaxConnects)
          ~> (fw.up # "yes" \/ (tcp_handle # 0 /\ streams[tcp_handle][1] = "AUTHZ"))
    /\ [][(fw.pc = "checked" /\ fw'.pc = "idle") => fw'.elapsed = 0]_vars
    /\ [][(fw.pc = "idle" /\ (fw'.pc = "checked" \/ (fw'.pc = "conn" /\ fw'.ret = "checked")))
            => fw.elapsed = RECONNECT_INTERVAL]_vars

\* No tag was read, a full interval went by with the server away, and the
\* check that followed its return restored the handle.
C33_Witness ==
    /\ fw.reads = 0 /\ fw.logs = 0
    /\ fw.pc = "checked"
    /\ fw.up = "yes"
    /\ tcp_handle = 1
    /\ Len(streams) = 1
    /\ fw.elapsed = RECONNECT_INTERVAL

(***************************************************************************)
(* The mutex of the connection handle: send_scan of                        *)
(* src/sentinel/src/main.rs with its guards held across steps, and         *)
(* DualLogger::log of src/sentinel/src/logger.rs called from send_scan     *)
(* under the guard and from another thread.                                *)
(***************************************************************************)

\* self.tcp.try_lock() fails when the mutex is held, by whichever thread.
WouldBlock(holder) == holder # "none"
\* if let Ok(mut guard) = self.tcp.try_lock() { ... }: log returns whether
\* or not it got the mutex.
LogReturns_OnlyWithLock(holder) == ~WouldBlock(holder)
LogReturns(holder) == TRUE

\* send_scan: match tcp_handle.lock() of the first write.
LockFirst ==
    /\ fw.pc = "write1"
    /\ fw.holder = "none"
    /\ fw' = [fw EXCEPT !.pc = "held1", !.holder = "main"]
    /\ UNCHANGED <<clock, tcp_handle, streams, reports, notFirmware>>

\* send_scan under the first guard: the write returns on success (the guard
\* is dropped), clears the handle on failure (the guard is dropped at the end
\* of the match), and goes to the warning when there is no stream.
WriteFirst ==
    /\ fw.pc = "held1"
    /\ IF tcp_handle = 0
       THEN /\ fw' = [fw EXCEPT !.pc = "warn1", !.call.outcome = "no stream"]
            /\ UNCHANGED <<tcp_handle, streams, reports>>
       ELSE \E ok \in Outcomes(fw.up) :
              IF ok
              THEN /\ streams' = Written(tcp_handle, "SCAN")
                   /\ reports' = Report(fw.call.tag)
                   /\ fw' = [fw EXCEPT !.pc = "stamp", !.holder = "none",
                                       !.call.writes = 1, !.call.outcome = "sent"]
                   /\ UNCHANGED tcp_handle
              ELSE /\ tcp_handle' = 0
                   /\ fw' = [fw EXCEPT !.pc = "conn", !.ret = "write2", !.holder = "none",
                                       !.call.writes = 1, !.call.reconnects = 1]
                   /\ UNCHANGED <<streams, reports>>
    /\ UNCHANGED <<clock, notFirmware>>

\* DualLogger::log called by the thread that holds the guard: what it does
\* to the stream, given the stream it would write on (0 when it got no
\* guard or the handle is empty).
LogLine(stream, ok) == IF stream # 0 /\ ok THEN Written(stream, "LOG") ELSE streams

\* warn!("Cannot send SCAN: no TCP stream available") under the guard, then
\* the end of the match.
WarnNoStream ==
    /\ fw.pc = "warn1"
    /\ LogReturns(fw.holder)
    /\ \E ok \in Outcomes(fw.up) :
         streams' = LogLine(IF WouldBlock(fw.holder) THEN 0 ELSE tcp_handle, ok)
    /\ fw' = [fw EXCEPT !.pc = "stamp", !.holder = "none"]
    /\ UNCHANGED <<clock, tcp_handle, reports, notFirmware>>

\* send_scan: match tcp_handle.lock() of the retry.
LockRetry ==
    /\ fw.pc = "write2"
    /\ fw.holder = "none"
    /\ fw' = [fw EXCEPT !.pc = "held2", !.holder = "main"]
    /\ UNCHANGED <<clock, tcp_handle, streams, reports, notFirmware>>

\* send_scan under the second guard: the write; both failures go on to an
\* error! made under the guard.
WriteRetry ==
    /\ fw.pc = "held2"
    /\ IF tcp_handle = 0
       THEN /\ fw' = [fw EXCEPT !.pc = "error2", !.call.outcome = "dropped: no stream"]
            /\ UNCHANGED <<tcp_handle, streams, reports>>
       ELSE \E ok \in Outcomes(fw.up) :
              IF ok
              THEN /\ streams' = Written(tcp_handle, "SCAN")
                   /\ reports' = Report(fw.call.tag)
                   /\ fw' = [fw EXCEPT !.pc = "stamp", !.holder = "none",
                                       !.call.writes = @ + 1,
                                       !.call.outcome = "sent on retry"]
                   /\ UNCHANGED tcp_handle
              ELSE /\ fw' = [fw EXCEPT !.pc = "error2", !.call.writes = @ + 1,
                                       !.call.outcome = "dropped: write failed"]
                   /\ UNCHANGED <<tcp_handle, streams, reports>>
    /\ UNCHANGED <<clock, notFirmware>>

\* error!(...) under the guard, then *guard = None after a failed write, and
\* the end of the match.
ErrorInGuard ==
    /\ fw.pc = "error2"
    /\ LogReturns(fw.holder)
    /\ \E ok \in Outcomes(fw.up) :
         streams' = LogLine(IF WouldBlock(fw.holder) THEN 0 ELSE tcp_handle, ok)
    /\ tcp_handle' = 0
    /\ fw' = [fw EXCEPT !.pc = "stamp", !.holder = "none"]
    /\ UNCHANGED <<clock, reports, notFirmware>>

\* DualLogger::log called on another thread: try_lock; with the guard, the
\* write follows in a later step; without it the call has returned.
LogTry ==
    /\ fw.logs < MaxLogs
    /\ fw' = [fw EXCEPT !.logs = @ + 1,
                        !.holder = IF WouldBlock(fw.holder) THEN @ ELSE "logger"]
    /\ UNCHANGED <<clock, tcp_handle, streams, reports, notFirmware>>

\* ... the LOG line on the stored stream under the logger's guard; a failed
\* write clears the handle; the guard is dropped.
LogWrite ==
    /\ fw.holder = "logger"
    /\ \E ok \in Outcomes(fw.up) :
         /\ streams' = LogLine(tcp_handle, ok)
         /\ tcp_handle' = IF tcp_handle # 0 /\ ~ok THEN 0 ELSE tcp_handle
    /\ fw' = [fw EXCEPT !.holder = "none"]
    /\ UNCHANGED <<clock, reports, notFirmware>>

\* The steps of the main thread between a verified read and the return of
\* send_scan, and at boot.
ScanLoop ==
    \/ Connect
    \/ SendAuthz
    \/ Store
    \/ Ensure
    \/ LockFirst
    \/ WriteFirst
    \/ WarnNoStream
    \/ LockRetry
    \/ WriteRetry
    \/ ErrorInGuard
    \/ Stamp

NextMutex ==
    \/ ScanLoop
    \/ \E tag \in Tags : Read(tag)
    \/ LogTry
    \/ LogWrite

\* Both threads keep running.
SpecMutex == InitFirmware /\ [][NextMutex]_vars /\ WF_vars(ScanLoop) /\ WF_vars(LogWrite)

Blocking == {"store", "ensure", "write1", "write2"}
UnderGuard == {"held1", "warn1", "held2", "error2"}

\* C34: the guard is held by one thread at a time; a log call made while
\* the mutex is held, by send_scan under its own guard or by another thread,
\* writes nothing and returns; the main thread's lock waits while the logger
\* holds the mutex and takes it once it is free; whenever the main thread is
\* not at the top of its loop it can step, or the logger holds the mutex and
\* can finish; and the main thread always comes back to the top of its loop.
C34_LoggerNeverBlocks ==
    /\ [](/\ fw.holder = "main" <=> fw.pc \in UnderGuard
          /\ fw.pc # "idle" =>
               \/ ENABLED ScanLoop
               \/ fw.holder = "logger" /\ fw.pc \in Blocking /\ ENABLED LogWrite)
    /\ [][/\ (fw.pc \in {"warn1", "error2"} /\ fw'.pc # fw.pc)
               => (streams' = streams /\ fw'.pc = "stamp" /\ fw'.holder = "none")
          /\ (fw'.logs # fw.logs /\ fw.holder # "none")
               => (fw'.holder = fw.holder /\ fw'.pc = fw.pc
                     /\ streams' = streams /\ tcp_handle' = tcp_handle)
          /\ (fw.pc \in Blocking /\ fw.holder = "logger") => fw'.pc = fw.pc
          /\ (fw.pc \in {"write1", "write2"} /\ fw'.pc # fw.pc) => fw'.holder = "main"]_vars
    /\ []<>(fw.pc = "idle")

\* send_scan found no stream, holds the guard and is about to log its
\* warning, after a log call of another thread was made.
C34_Witness ==
    /\ fw.pc = "warn1"
    /\ fw.holder = "main"
    /\ tcp_handle = 0
    /\ fw.logs = 1

(***************************************************************************)
(* Properties of concurrent first connections                              *)
(***************************************************************************)

InHandshake(s) == sess[s].pc \in {"authz", "lookup", "create", "increment"}
Connected(s) ==
    SelectSeq(events, LAMBDA e : e.type = "SentinelConnected" /\ e.by = s)

\* C35: every session that presented the configured secret and is past its
\* handshake was counted on the one sentinel row of that secret, also when
\* the secret had no row when the sessions began and their lookups and
\* inserts interleave.
C35_AllFirstSessionsCounted ==
    \A s \in Sessions :
        (sess[s].hello = "good" /\ ~InHandshake(s))
          => /\ sentinel.exists
             /\ sess[s].authed
             /\ Len(Connected(s)) = 1

(***************************************************************************)
(* Properties of the order of unlock and audit record                      *)
(***************************************************************************)

\* C36: a process_scan call that sent an unlock command leaves its scan_log
\* statement only with a granted row for its tag appended, also when that
\* statement fails.
C36_UnlockHasAuditRow ==
    [][\A s \in Sessions :
         (/\ sess[s].pc = "scan_log"
          /\ Unlocks(sess[s].scan.calls) # <<>>
          /\ sess'[s].pc # "scan_log")
           => /\ Len(scanLog') = Len(scanLog) + 1
              /\ scanLog'[Len(scanLog')] = [tag |-> sess[s].scan.tag, action |-> "granted"]]_vars

(***************************************************************************)
(* Properties of the mode at the time of a card insert                     *)
(***************************************************************************)

\* The card of tag t is created by this step.
Created(t) == cards'[t] > cards[t]

\* C37 as stated: whenever a card is created the persisted mode is enroll.
C37_InsertOnlyInEnrollMode ==
    [][\A t \in Tags : Created(t) => mode = "enroll"]_vars

\* C37, amended: whenever a card is created, it is by the insert of a
\* process_scan call for that tag whose mode read returned enroll; the
\* persisted mode may have been set to guard since.
C37_InsertOnlyAfterEnrollRead ==
    [][\A t \in Tags :
         Created(t) =>
            \E s \in Sessions :
               /\ sess[s].pc = "scan_card" /\ sess'[s].pc = "scan_log"
               /\ sess[s].scan.tag = t
               /\ sess[s].scan.mode = "enroll"
               /\ sess'[s].scan.action = "enrolled"]_vars

\* A call that read enroll has created the card of its tag after the mode
\* was set to guard.
C37_Witness ==
    \E s \in Sessions :
       /\ sess[s].pc = "scan_log"
       /\ sess[s].scan.mode = "enroll"
       /\ sess[s].scan.held = 0
       /\ cards[sess[s].scan.tag] = 1
       /\ mode = "guard"
       /\ \E i \in 1..Len(events) : events[i].type = "ModeChanged" /\ events[i].a = "guard"

(***************************************************************************)
(* Properties of the CardAdded event                                       *)
(***************************************************************************)

\* This step sends a CardAdded event.
SendsCardAdded ==
    /\ Len(events') = Len(events) + 1
    /\ events'[Len(events')].type = "CardAdded"
\* Session s returns from the last statement of an enrolled scan.
EndsEnrolled(s) == sess[s].pc = "scan_added" /\ sess'[s].pc = "active"

\* C38 as stated: a CardAdded event is sent only by a call whose insert
\* created the card, that is, found no card of the tag.
C38_CardAddedOnlyOnCreate ==
    [][SendsCardAdded =>
         \E s \in Sessions :
            /\ EndsEnrolled(s)
            /\ events'[Len(events')].by = s
            /\ sess[s].scan.held = 0]_vars

\* C38, amended: a CardAdded event is sent only at the end of a call whose
\* action is enrolled, for the tag of that call, and every such call sends
\* one when the card of its tag is in the store at that moment, whether its
\* insert created the card or found it.
C38_CardAddedOnEveryEnroll ==
    /\ [][SendsCardAdded =>
            \E s \in Sessions :
               /\ EndsEnrolled(s)
               /\ sess[s].scan.action = "enrolled"
               /\ events'[Len(events')] = Ev("CardAdded", s, sess[s].scan.tag, "")]_vars
    /\ [][\A s \in Sessions :
            EndsEnrolled(s) =>
               IF cards[sess[s].scan.tag] > 0
               THEN events' = Append(events, Ev("CardAdded", s, sess[s].scan.tag, ""))
               ELSE events' = events]_vars

\* A call re-enrolled a tag whose card was there, and sent Scan with action
\* enrolled and then CardAdded.
C38_Witness ==
    \E s \in Sessions :
       /\ sess[s].pc = "active"
       /\ sess[s].lastScan.action = "enrolled"
       /\ sess[s].lastScan.held = 1
       /\ Len(events) >= 2
       /\ events[Len(events)] = Ev("CardAdded", s, sess[s].lastScan.tag, "")
       /\ events[Len(events) - 1] = Ev("Scan", s, sess[s].lastScan.tag, "enrolled")


(***************************************************************************)
(* Properties of read_limited_line under different chunkings               *)
(***************************************************************************)

\* The bytes of a delivery as one chunk.
RECURSIVE Concat(_)
Concat(chunks) == IF chunks = <<>> THEN <<>> ELSE Head(chunks) \o Concat(Tail(chunks))
OneChunk(d) == Delivery(IF d.chunks = <<>> THEN <<>> ELSE <<Concat(d.chunks)>>, d.end)

\* Session s has read delivery d in this step, from an empty buffer.
ReadsFresh(s, d) ==
    /\ sess[s].pc = "active"
    /\ sess[s].rx = NoInput
    /\ sess'[s] # sess[s]
    /\ LET r == read_limited_line(d.chunks, d.end)
       IN  /\ sess'[s].last.res = r.res
           /\ sess'[s].rx = IF LoopExit(r.res) THEN NoInput ELSE Delivery(r.rest, d.end)

\* C39: what a call of read_limited_line returns depends on the bytes of the
\* stream only: a call that reads a delivery returns what it returns for the
\* same bytes arriving in one chunk, so a line of valid UTF-8 is accepted also
\* when a character of two bytes lies across two chunks.
C39_ChunkingIrrelevant ==
    [][\A s \in Sessions : \A d \in LineDeliveries \cup StreamEnds :
          ReadsFresh(s, d)
          => sess'[s].last.res = read_limited_line(OneChunk(d).chunks, d.end).res]_vars

====
